---------------------------- MODULE Spec2Model ----------------------------
(*
  State-machine interpreter of state_machine_visualizer/simulator.py:
  the process-wide EventLoop, the QHsm dispatcher (QMsm_dispatch and
  do_transition), the runtime handlers (State, InitialState, ChoiceState,
  FinalState), the guard/action interpreter and the run_state_machine driver,
  together with the host's stop button (CyberBearVisualizer.stop_simulation).

  Python lists are sequences; a Python index i is position i + 1 here.
  A handler (a bound execute_signal method) is named by its vertex id, and
  QHsm_top by "top".  None is the string "None".
*)
EXTENDS Integers, Sequences, FiniteSets, TLC

(***************************************************************************)
(* Bounds of the model.                                                    *)
(***************************************************************************)
MaxSignals == 6      \* longest list of pre-posted external signals
MaxEvents == 8       \* cap on len(EventLoop.events) for self-posting runs
MaxElapsed == 1      \* wall-clock ticks observed during one run
MaxHostBreaks == 1   \* presses of the stop button during one run
MaxApiCalls == 7     \* calls in an EventLoop API history
MaxField == 2        \* height of the gardener's field
MaxBuilds == 2       \* StateMachine(...) calls made on one parsed model

(***************************************************************************)
(* Program constants.                                                      *)
(***************************************************************************)
Q_MAX_DEPTH == 8
TimeoutSec == 0      \* timeout_sec handed to run_state_machine, in ticks

None == "None"
NoParent == "None"
top == "top"
Q_ENTRY_SIG == "entry"
Q_EXIT_SIG == "exit"
QEP_EMPTY_SIG_ == "QEP_EMPTY_SIG"
noconditionTransition == "noconditionTransition"
break == "break"
default_signals == {noconditionTransition, Q_ENTRY_SIG, Q_EXIT_SIG}

Q_RET_SUPER == "SUPER"
Q_RET_UNHANDLED == "UNHANDLED"
Q_RET_HANDLED == "HANDLED"
Q_RET_IGNORED == "IGNORED"
Q_RET_TRAN == "TRAN"
Statuses == {Q_RET_SUPER, Q_RET_UNHANDLED, Q_RET_HANDLED, Q_RET_IGNORED, Q_RET_TRAN}

VARIABLES
  graph,              \* parse_cgml's input: the nodes and edges of one <graph>
  elements,           \* parse_cgml's locals and, at the end, its outcome
  arguments,          \* the argument list an action line was written from
  args_str,           \* __parse_args' input: the text between the parentheses
  args,               \* __parse_args' outcome
  app,                \* MainApp: current_visualizer, state_machine_data, buttons
  last,               \* history: the latest load_file attempt and how it ended
  ran,                \* history: the machine the latest run_simulation executed
  runs,               \* number of run_simulation calls so far
  loads,              \* number of load_file calls so far
  earlier,            \* the StateMachineResults of the runs before this one
  cgml,               \* the CGMLStateMachine handed to StateMachine(...) by a host
  built,              \* history: the StateMachine(...) calls made on cgml
  caller,             \* the entry point that calls run_state_machine
  result,             \* what the caller of the entry point receives
  crash,              \* the exception that escaped is a GardenerCrashException
  m,                  \* the parsed machine handed to StateMachine(...)
  signals,            \* run_state_machine's signals argument
  isInfinite,         \* run_state_machine's isInfinite argument
  events,             \* EventLoop.events
  called_events,      \* EventLoop.called_events
  current_event_idx,  \* EventLoop.current_event_idx
  insert_event_idx,   \* EventLoop.insert_event_idx
  current_,           \* QHsm.current_
  effective_,         \* QHsm.effective_
  target_,            \* QHsm.target_
  components,         \* StateMachine.components: id -> the device's attributes
  raised,             \* an exception escaped the run
  pc,                 \* position of the driver in run_state_machine
  event,              \* run_state_machine's local variable event
  timeout,            \* run_state_machine's local variable timeout
  elapsed,            \* time.time() - start_time, in ticks
  hostBreaks,         \* number of stop_simulation calls so far
  trace,              \* history: handler invocations of the latest dispatch
  actionLog,          \* history: component methods invoked during the run
  dispatched,         \* history: events handed to SIMPLE_DISPATCH by the driver
  got,                \* history: events returned by get_event to the driver
  hist                \* history: the latest EventLoop API calls

hostVars == <<app, last, ran, runs, loads, earlier>>

parserVars == <<graph, elements, arguments, args_str, args, hostVars>>

builderVars == <<cgml, built>>

vars == <<graph, elements, arguments, args_str, args, app, last, ran, runs, loads, earlier, cgml, built, caller, result, crash, m, signals, isInfinite, events, called_events, current_event_idx,
          insert_event_idx, current_, effective_, target_, components, raised,
          pc, event, timeout, elapsed, hostBreaks, trace, actionLog,
          dispatched, got, hist>>

(***************************************************************************)
(* EventLoop (simulator.py 527-562).  The operators act on a record w that *)
(* holds the mutable state a handler can touch.                            *)
(***************************************************************************)

\* list.insert(i, x): x ends up at Python index min(i, len(s))
ListInsert(s, i, x) ==
  LET k == IF i > Len(s) THEN Len(s) ELSE i
  IN SubSeq(s, 1, k) \o <<x>> \o SubSeq(s, k + 1, Len(s))

\* a slip: the event is recorded as called whatever the flag says
add_event_AlwaysCalled(w, e, is_called) ==
  [w EXCEPT !.insert_event_idx = @ + 1,
            !.events = ListInsert(@, w.insert_event_idx + 1, e),
            !.called_events = Append(@, e)]

\* a slip: the event is inserted at insert_event_idx as get_event left it
add_event_InsertsAtCursor(w, e, is_called) ==
  [w EXCEPT !.insert_event_idx = @ + 1,
            !.events = ListInsert(@, w.insert_event_idx, e),
            !.called_events = IF is_called THEN Append(@, e) ELSE @]

add_event(w, e, is_called) ==
  [w EXCEPT !.insert_event_idx = @ + 1,
            !.events = ListInsert(@, w.insert_event_idx + 1, e),
            !.called_events = IF is_called THEN Append(@, e) ELSE @]

\* a slip: the read cursor is reset and the events stay
clear_KeepsEvents(w) ==
  [w EXCEPT !.current_event_idx = 0, !.called_events = <<>>]

clear(w) ==
  [w EXCEPT !.current_event_idx = 0, !.events = <<>>, !.called_events = <<>>]

\* the value get_event returns
get_event_result(w) ==
  IF w.current_event_idx < Len(w.events)
    THEN w.events[w.current_event_idx + 1]
    ELSE None

\* a slip: the cursors move on although the queue is drained
get_event_AlwaysAdvances(w) ==
  [w EXCEPT !.current_event_idx = @ + 1,
            !.insert_event_idx = w.current_event_idx + 1]

\* the state get_event leaves behind
get_event(w) ==
  IF w.current_event_idx < Len(w.events)
    THEN [w EXCEPT !.current_event_idx = @ + 1,
                   !.insert_event_idx = w.current_event_idx + 1]
    ELSE w


(***************************************************************************)
(* The parsed model (CGMLStateMachine).  A dict is the sequence of its     *)
(* values in insertion order, each value carrying its key as id.  A        *)
(* trigger or actions text "event[condition]/action" is kept split into    *)
(* its event name, its condition and its action lines.                     *)
(***************************************************************************)
Lit(n) == [comp |-> "", attr |-> "", val |-> n]
Attr(c, a) == [comp |-> c, attr |-> a, val |-> 0]
Cond(l, o, r) == [lhs |-> l, op |-> o, rhs |-> r]
NoCond == Cond(Lit(0), "", Lit(0))
Else == Cond(Lit(0), "else", Lit(0))
Line(c, meth, a) == [component |-> c, method |-> meth, arg |-> a]
NoAction == <<>>

CGMLState(i, p, a) == [id |-> i, parent |-> p, actions |-> a]
CGMLVertex(i, p) == [id |-> i, parent |-> p]
CGMLTransition(s, t, e, c, a) ==
  [source |-> s, target |-> t, event |-> e, condition |-> c, action |-> a]
CGMLComponent(i, t) == [id |-> i, type |-> t]
Block(e, c, a) == [event |-> e, condition |-> c, action |-> a]

\* scenario 2 of the specification: the two-state toggle
ToggleMachine ==
  [states |-> <<CGMLState("A", NoParent, <<>>), CGMLState("B", NoParent, <<>>)>>,
   initial_states |-> <<CGMLVertex("i", NoParent)>>,
   finals |-> <<>>, choices |-> <<>>,
   transitions |-> <<CGMLTransition("i", "A", "", NoCond, NoAction),
                     CGMLTransition("A", "B", "toggle", NoCond, NoAction),
                     CGMLTransition("B", "A", "toggle", NoCond, NoAction)>>,
   components |-> <<>>,
   alphabet |-> {"toggle"}]

\* scenario 4: the guarded self-loop; the else branch is an internal signal
TickMachine ==
  [states |-> <<CGMLState("S", NoParent,
                  <<Block("tick", Else, <<Line("imp", "impulseC", 0)>>)>>)>>,
   initial_states |-> <<CGMLVertex("i", NoParent)>>,
   finals |-> <<>>, choices |-> <<>>,
   transitions |-> <<CGMLTransition("i", "S", "", NoCond, NoAction),
                     CGMLTransition("S", "S", "tick",
                        Cond(Attr("cnt", "value"), "<", Lit(3)),
                        <<Line("cnt", "add", 1)>>)>>,
   components |-> <<CGMLComponent("cnt", "Counter"), CGMLComponent("imp", "Impulse")>>,
   alphabet |-> {"tick"}]

\* scenario 4 again; the else branch is a transition to a final vertex
TickFinalMachine ==
  [states |-> <<CGMLState("S", NoParent, <<>>)>>,
   initial_states |-> <<CGMLVertex("i", NoParent)>>,
   finals |-> <<CGMLVertex("F", NoParent)>>, choices |-> <<>>,
   transitions |-> <<CGMLTransition("i", "S", "", NoCond, NoAction),
                     CGMLTransition("S", "S", "tick",
                        Cond(Attr("cnt", "value"), "<", Lit(3)),
                        <<Line("cnt", "add", 1)>>),
                     CGMLTransition("S", "F", "tick", Else,
                        <<Line("imp", "impulseC", 0)>>)>>,
   components |-> <<CGMLComponent("cnt", "Counter"), CGMLComponent("imp", "Impulse")>>,
   alphabet |-> {"tick"}]

\* scenario 3: composite S with the choice C, and a choice D without else
ChoiceMachine ==
  [states |-> <<CGMLState("S", NoParent,
                  <<Block("inc", Cond(Attr("cnt", "value"), "<", Lit(1)),
                          <<Line("cnt", "add", 1)>>),
                    Block("inc", Else, <<Line("imp", "impulseC", 0)>>)>>),
                CGMLState("T1", "S", <<>>),
                CGMLState("T2", "S", <<>>)>>,
   initial_states |-> <<CGMLVertex("i", NoParent)>>,
   finals |-> <<>>,
   choices |-> <<CGMLVertex("C", "S"), CGMLVertex("D", "S")>>,
   transitions |-> <<CGMLTransition("i", "S", "", NoCond, NoAction),
                     CGMLTransition("S", "C", "go", NoCond, NoAction),
                     CGMLTransition("C", "T1", "",
                        Cond(Attr("cnt", "value"), ">", Lit(0)),
                        <<Line("imp", "impulseA", 0)>>),
                     CGMLTransition("C", "T2", "", Else,
                        <<Line("imp", "impulseB", 0)>>),
                     CGMLTransition("T2", "D", "go", NoCond, NoAction),
                     CGMLTransition("D", "T1", "",
                        Cond(Attr("cnt", "value"), ">", Lit(1)),
                        <<Line("imp", "impulseC", 0)>>)>>,
   components |-> <<CGMLComponent("cnt", "Counter"), CGMLComponent("imp", "Impulse")>>,
   alphabet |-> {"go", "inc"}]

\* a state with guarded internal signals, a timer polled by the driver and
\* two transitions to a final vertex
FinalTimerMachine ==
  [states |-> <<CGMLState("A", NoParent,
                  <<Block("entry", NoCond, <<Line("t", "start", 1)>>),
                    Block("x", Cond(Attr("cnt", "value"), "==", Lit(1)),
                          <<Line("imp", "impulseB", 0)>>),
                    Block("x", Else, <<Line("imp", "impulseC", 0)>>),
                    Block("x", Cond(Attr("cnt", "value"), "==", Lit(0)),
                          <<Line("cnt", "add", 1), Line("imp", "impulseA", 0)>>)>>)>>,
   initial_states |-> <<CGMLVertex("i", NoParent)>>,
   finals |-> <<CGMLVertex("F", NoParent)>>, choices |-> <<>>,
   transitions |-> <<CGMLTransition("i", "A", "", NoCond, NoAction),
                     CGMLTransition("A", "F", "go",
                        Cond(Attr("cnt", "value"), "==", Lit(1)), NoAction),
                     CGMLTransition("A", "F", "t.timeout", NoCond, NoAction)>>,
   components |-> <<CGMLComponent("t", "Timer"), CGMLComponent("cnt", "Counter"),
                    CGMLComponent("imp", "Impulse")>>,
   alphabet |-> {"go", "x"}]

\* a composite P with the children A and B, and a state Q beside it
NestedMachine ==
  [states |-> <<CGMLState("P", NoParent,
                  <<Block("entry", NoCond, <<Line("imp", "impulseA", 0)>>),
                    Block("exit", NoCond, <<Line("imp", "impulseB", 0)>>)>>),
                CGMLState("A", "P", <<>>),
                CGMLState("B", "P",
                  <<Block("next", Cond(Attr("cnt", "value"), "!=", Lit(0)),
                          <<Line("imp", "impulseC", 0)>>)>>),
                CGMLState("Q", NoParent, <<>>)>>,
   initial_states |-> <<CGMLVertex("i", NoParent), CGMLVertex("pi", "P")>>,
   finals |-> <<CGMLVertex("F", "P")>>, choices |-> <<>>,
   transitions |-> <<CGMLTransition("i", "P", "", NoCond, NoAction),
                     CGMLTransition("pi", "A", "", NoCond, NoAction),
                     CGMLTransition("A", "B", "next", NoCond,
                        <<Line("cnt", "set", 1)>>),
                     CGMLTransition("B", "P", "up", NoCond, NoAction),
                     CGMLTransition("P", "Q", "out", NoCond, NoAction),
                     CGMLTransition("Q", "B", "next",
                        Cond(Attr("cnt", "value"), "<=", Lit(1)), NoAction),
                     CGMLTransition("B", "F", "out",
                        Cond(Attr("cnt", "value"), "<", Lit(0)), NoAction)>>,
   components |-> <<CGMLComponent("cnt", "Counter"), CGMLComponent("imp", "Impulse")>>,
   alphabet |-> {"next", "up", "out"}]

\* a machine that keeps posting to itself: the choice C targets itself
SelfPostMachine ==
  [states |-> <<CGMLState("S", NoParent, <<>>)>>,
   initial_states |-> <<CGMLVertex("i", NoParent)>>,
   finals |-> <<>>,
   choices |-> <<CGMLVertex("C", NoParent)>>,
   transitions |-> <<CGMLTransition("i", "S", "", NoCond, NoAction),
                     CGMLTransition("S", "C", "go", NoCond, NoAction),
                     CGMLTransition("C", "C", "", Else, NoAction)>>,
   components |-> <<>>,
   alphabet |-> {"go"}]

\* guards whose operands name no component (ghost.value), no attribute
\* (cnt.bogus) or are no literal (abc, abd)
GuardMachine ==
  [states |-> <<CGMLState("A", NoParent, <<>>), CGMLState("B", NoParent, <<>>)>>,
   initial_states |-> <<CGMLVertex("i", NoParent)>>,
   finals |-> <<>>, choices |-> <<>>,
   transitions |-> <<CGMLTransition("i", "A", "", NoCond, NoAction),
                     CGMLTransition("A", "B", "x",
                        Cond(Attr("ghost", "value"), "!=", Lit(1)),
                        <<Line("cnt", "add", 1)>>),
                     CGMLTransition("A", "B", "y",
                        Cond(Attr("abc", ""), ">=", Attr("abd", "")), NoAction),
                     CGMLTransition("B", "A", "x",
                        Cond(Attr("cnt", "bogus"), "==", Lit(1)), NoAction),
                     CGMLTransition("B", "A", "y",
                        Cond(Attr("abc", ""), "<", Lit(1)), NoAction)>>,
   components |-> <<CGMLComponent("cnt", "Counter")>>,
   alphabet |-> {"x", "y"}]

\* a gardener machine: every entry of A moves the gardener one cell forward
GardenMachine ==
  [states |-> <<CGMLState("A", NoParent,
                  <<Block("entry", NoCond, <<Line("imp", "impulseA", 0),
                                             Line("mv", "move_forward", 0)>>)>>)>>,
   initial_states |-> <<CGMLVertex("i", NoParent)>>,
   finals |-> <<>>, choices |-> <<>>,
   transitions |-> <<CGMLTransition("i", "A", "", NoCond, NoAction),
                     CGMLTransition("A", "A", "go", NoCond, NoAction)>>,
   components |-> <<CGMLComponent("imp", "Impulse"), CGMLComponent("mv", "Mover")>>,
   alphabet |-> {"go"}]

\* a choice D whose one branch is guarded and which has no else branch
NoElseMachine ==
  [states |-> <<CGMLState("S", NoParent, <<>>), CGMLState("T", NoParent, <<>>)>>,
   initial_states |-> <<CGMLVertex("i", NoParent)>>,
   finals |-> <<>>,
   choices |-> <<CGMLVertex("D", NoParent)>>,
   transitions |-> <<CGMLTransition("i", "S", "", NoCond, NoAction),
                     CGMLTransition("S", "D", "go", NoCond, NoAction),
                     CGMLTransition("D", "T", "",
                        Cond(Attr("cnt", "value"), ">", Lit(1)), NoAction)>>,
   components |-> <<CGMLComponent("cnt", "Counter")>>,
   alphabet |-> {"go"}]

\* a composite P that takes again back to itself while its child A is
\* current; the action of again names a component the machine has not
DeepSelfMachine ==
  [states |-> <<CGMLState("P", NoParent,
                  <<Block("entry", NoCond, <<Line("cnt", "add", 1)>>)>>),
                CGMLState("A", "P",
                  <<Block("exit", NoCond, <<Line("imp", "impulseB", 0)>>)>>)>>,
   initial_states |-> <<CGMLVertex("i", NoParent), CGMLVertex("pi", "P")>>,
   finals |-> <<>>, choices |-> <<>>,
   transitions |-> <<CGMLTransition("i", "P", "", NoCond, NoAction),
                     CGMLTransition("pi", "A", "", NoCond, NoAction),
                     CGMLTransition("P", "P", "again", NoCond,
                        <<Line("ghost", "ping", 0), Line("imp", "impulseA", 0)>>)>>,
   components |-> <<CGMLComponent("cnt", "Counter"), CGMLComponent("imp", "Impulse")>>,
   alphabet |-> {"again"}]

\* a child B of the composite P that takes up to its own parent
UpwardMachine ==
  [states |-> <<CGMLState("P", NoParent,
                  <<Block("entry", NoCond, <<Line("cnt", "add", 1)>>)>>),
                CGMLState("B", "P", <<>>)>>,
   initial_states |-> <<CGMLVertex("i", NoParent)>>,
   finals |-> <<>>, choices |-> <<>>,
   transitions |-> <<CGMLTransition("i", "B", "", NoCond, NoAction),
                     CGMLTransition("B", "P", "up", NoCond, NoAction)>>,
   components |-> <<CGMLComponent("cnt", "Counter")>>,
   alphabet |-> {"up"}]

\* a composite P whose child A takes end to the final vertex F of P
NestedFinalMachine ==
  [states |-> <<CGMLState("P", NoParent,
                  <<Block("entry", NoCond, <<Line("cnt", "add", 1)>>),
                    Block("exit", NoCond, <<Line("imp", "impulseB", 0)>>)>>),
                CGMLState("A", "P", <<>>)>>,
   initial_states |-> <<CGMLVertex("i", NoParent)>>,
   finals |-> <<CGMLVertex("F", "P")>>, choices |-> <<>>,
   transitions |-> <<CGMLTransition("i", "A", "", NoCond, NoAction),
                     CGMLTransition("A", "F", "end", NoCond, NoAction)>>,
   components |-> <<CGMLComponent("cnt", "Counter"), CGMLComponent("imp", "Impulse")>>,
   alphabet |-> {"end"}]

MachineIds ==
  {"toggle", "tick", "tickFinal", "choice", "finalTimer", "nested", "selfPost",
   "guard", "garden", "noElse", "deepSelf", "upward", "nestedFinal"}

Machine(id) ==
  CASE id = "toggle" -> ToggleMachine
    [] id = "tick" -> TickMachine
    [] id = "tickFinal" -> TickFinalMachine
    [] id = "choice" -> ChoiceMachine
    [] id = "finalTimer" -> FinalTimerMachine
    [] id = "nested" -> NestedMachine
    [] id = "selfPost" -> SelfPostMachine
    [] id = "guard" -> GuardMachine
    [] id = "garden" -> GardenMachine
    [] id = "noElse" -> NoElseMachine
    [] id = "deepSelf" -> DeepSelfMachine
    [] id = "upward" -> UpwardMachine
    [] id = "nestedFinal" -> NestedFinalMachine

\* dict helpers: key in dict, dict[key]
Ids(d) == {d[i].id : i \in 1..Len(d)}
Get(d, k) == d[CHOOSE i \in 1..Len(d) : d[i].id = k]
SeqMap(F(_), s) == [i \in 1..Len(s) |-> F(s[i])]

(***************************************************************************)
(* The builder: StateMachine.__init__ and the init_* functions.            *)
(***************************************************************************)
Signal(c, a, st, t) == [condition |-> c, action |-> a, status |-> st, target |-> t]

find_transitions_for_state(state_id, cgml_transitions) ==
  SelectSeq(cgml_transitions, LAMBDA t : t.source = state_id)

\* an initial vertex is kept only if it has exactly one outgoing transition
init_initial_states(M) ==
  SeqMap(LAMBDA v : [id |-> v.id,
                     target |-> find_transitions_for_state(v.id, M.transitions)[1].target,
                     parent |-> v.parent],
         SelectSeq(M.initial_states,
                   LAMBDA v : Len(find_transitions_for_state(v.id, M.transitions)) = 1))

init_final_states(M) == SeqMap(LAMBDA v : [id |-> v.id, parent |-> v.parent], M.finals)

\* the ChoiceSignal list of every choice vertex; post_init_choice_states
\* turns each status into Q_TRAN(target)
init_choice_states(M) ==
  SeqMap(LAMBDA v : [id |-> v.id, parent |-> v.parent,
                     conditions |->
                       SeqMap(LAMBDA t : Signal(t.condition, t.action, Q_RET_TRAN, t.target),
                              find_transitions_for_state(v.id, M.transitions))],
         M.choices)

EventNames(M) ==
  {M.transitions[i].event : i \in 1..Len(M.transitions)} \cup
  UNION {{M.states[i].actions[j].event : j \in 1..Len(M.states[i].actions)} :
           i \in 1..Len(M.states)}

\* the signals dict of one State: the blocks of its actions text first
\* (parse_actions_block), then its outgoing transitions whose target resolves
init_states(M) ==
  LET known == Ids(M.states) \cup Ids(init_initial_states(M)) \cup
               Ids(M.finals) \cup Ids(M.choices)
      internal(st, ev) ==
        SeqMap(LAMBDA b : Signal(b.condition, b.action, Q_RET_HANDLED, None),
               SelectSeq(st.actions, LAMBDA b : b.event = ev))
      outgoing(st, ev) ==
        SeqMap(LAMBDA t : Signal(t.condition, t.action, Q_RET_TRAN, t.target),
               SelectSeq(M.transitions,
                         LAMBDA t : t.source = st.id /\ t.event = ev /\ t.target \in known))
  IN SeqMap(LAMBDA st : [id |-> st.id, parent |-> st.parent,
                         signals |-> [ev \in EventNames(M) |->
                                        internal(st, ev) \o outgoing(st, ev)]],
            M.states)

\* the attributes of a freshly constructed device
init_components(M) ==
  [c \in Ids(M.components) |->
     [type |-> Get(M.components, c).type, value |-> 0, started |-> FALSE]]

\* Mover.get_sm_options: the gardener of sm_parameters is kept by the device
get_sm_options(comps, gardener) ==
  [c \in DOMAIN comps |->
     IF comps[c].type = "Mover"
       THEN [type |-> "Mover", value |-> 0, started |-> FALSE, gardener |-> gardener]
       ELSE comps[c]]

find_highest_level_initial_state(initial_states) ==
  IF \E i \in 1..Len(initial_states) : initial_states[i].parent = NoParent
    THEN initial_states[CHOOSE i \in 1..Len(initial_states) :
           /\ initial_states[i].parent = NoParent
           /\ \A j \in 1..(i - 1) : initial_states[j].parent # NoParent].id
    ELSE None

StateMachine(M) ==
  [states |-> init_states(M),
   inital_states |-> init_initial_states(M),
   final_states |-> init_final_states(M),
   choice_states |-> init_choice_states(M),
   initial |-> find_highest_level_initial_state(init_initial_states(M))]

Kind(sm, h) ==
  CASE h \in Ids(sm.states) -> "state"
    [] h \in Ids(sm.inital_states) -> "initial"
    [] h \in Ids(sm.final_states) -> "final"
    [] h \in Ids(sm.choice_states) -> "choice"
    [] OTHER -> "top"

(***************************************************************************)
(* Guards and actions (StateMachine.intepreter_condition and               *)
(* intepreter_action) and the devices Counter, Impulse and Timer.          *)
(***************************************************************************)
Attributes(type) == IF type = "Counter" THEN {"value"} ELSE {}

Methods(type) ==
  CASE type = "Counter" -> {"set", "add", "sub", "clear"}
    [] type = "Impulse" -> {"impulseA", "impulseB", "impulseC"}
    [] type = "Timer" -> {"start", "stop"}
    [] type = "Mover" -> {"move_forward", "move_backward", "turn_left", "turn_right"}
    [] OTHER -> {}

\* the operand texts of the machines above, in the order of Python's str
\* comparison; a text stands for its place in this order
Texts == <<"abc", "abd", "cnt.bogus", "ghost.value">>

TextOf(x) == IF x.attr = "" THEN x.comp ELSE x.comp \o "." \o x.attr

Rank(t) == CHOOSE i \in 1..Len(Texts) : Texts[i] = t

\* resolve(val) of a guard operand: a number, a component attribute, or
\* else the text itself
resolve(w, x) ==
  IF x.comp = "" THEN [str |-> FALSE, v |-> x.val]
  ELSE IF x.comp \in DOMAIN w.components
          /\ x.attr \in Attributes(w.components[x.comp].type)
    THEN [str |-> FALSE, v |-> w.components[x.comp].value]
    ELSE [str |-> TRUE, v |-> Rank(TextOf(x))]

\* op_func(left_val, right_val) on two numbers
Compare(op, a, b) ==
  CASE op = ">" -> a > b
    [] op = "<" -> a < b
    [] op = "==" -> a = b
    [] op = "!=" -> a # b
    [] op = ">=" -> a >= b
    [] op = "<=" -> a <= b

\* op_func(left_val, right_val) on the resolved operands: a text never
\* equals a number, and ordering one against the other is a TypeError
OpFunc(op, l, r) ==
  IF ~l.str /\ ~r.str
    THEN [val |-> Compare(op, l.v, r.v), raised |-> FALSE]
  ELSE IF l.str # r.str /\ op \in {"==", "!="}
    THEN [val |-> (op = "!="), raised |-> FALSE]
  ELSE IF l.str # r.str
    THEN [val |-> FALSE, raised |-> TRUE]
  ELSE [val |-> Compare(op, l.v, r.v), raised |-> FALSE]

\* the value of a guard, or the exception it raises
intepreter_condition(w, c) ==
  IF c.op = "" THEN [val |-> TRUE, raised |-> FALSE]
  ELSE OpFunc(c.op, resolve(w, c.lhs), resolve(w, c.rhs))

\* Gardener(N, M) as its constructor leaves it, on a field without walls
SOUTH == 0
NORTH == 1
WEST == 2
EAST == 3

WALL == -1

Gardener(N, M) ==
  [N |-> N, M |-> M, field |-> [row \in 0..(M - 1) |-> [col \in 0..(N - 1) |-> 0]],
   orientation |-> SOUTH, x |-> 0, y |-> 0]

\* Gardener.set_field(field), for a field of rows rows of cols cells
set_field(g, field, rows, cols) == [g EXCEPT !.field = field, !.M = rows, !.N = cols]

\* dx, dy of Mover.move_forward for an orientation
Dx(orientation) ==
  CASE orientation = WEST -> -1 [] orientation = EAST -> 1 [] OTHER -> 0

Dy(orientation) ==
  CASE orientation = NORTH -> -1 [] orientation = SOUTH -> 1 [] OTHER -> 0

\* a slip: a wall is entered like any other cell
MoveBy_ThroughWalls(w, c, g, dx, dy) ==
  IF 0 <= g.x + dx /\ g.x + dx < g.N /\ 0 <= g.y + dy /\ g.y + dy < g.M
    THEN [w EXCEPT !.components[c].gardener.x = g.x + dx,
                   !.components[c].gardener.y = g.y + dy]
    ELSE [w EXCEPT !.raised = TRUE, !.crash = TRUE]

\* the gardener moves to (x + dx, y + dy), or GardenerCrashException is
\* raised: 'Crash: hit a wall!' or 'Crash: out of bounds!'
MoveBy(w, c, g, dx, dy) ==
  IF 0 <= g.x + dx /\ g.x + dx < g.N /\ 0 <= g.y + dy /\ g.y + dy < g.M
    THEN IF g.field[g.y + dy][g.x + dx] # WALL
           THEN [w EXCEPT !.components[c].gardener.x = g.x + dx,
                          !.components[c].gardener.y = g.y + dy]
           ELSE [w EXCEPT !.raised = TRUE, !.crash = TRUE]
    ELSE [w EXCEPT !.raised = TRUE, !.crash = TRUE]

move_forward(w, c) ==
  MoveBy(w, c, w.components[c].gardener,
         Dx(w.components[c].gardener.orientation),
         Dy(w.components[c].gardener.orientation))

move_backward(w, c) ==
  MoveBy(w, c, w.components[c].gardener,
         -Dx(w.components[c].gardener.orientation),
         -Dy(w.components[c].gardener.orientation))

turn_left(w, c) ==
  [w EXCEPT !.components[c].gardener.orientation =
     CASE @ = NORTH -> WEST [] @ = WEST -> SOUTH [] @ = SOUTH -> EAST [] OTHER -> NORTH]

turn_right(w, c) ==
  [w EXCEPT !.components[c].gardener.orientation =
     CASE @ = NORTH -> EAST [] @ = EAST -> SOUTH [] @ = SOUTH -> WEST [] OTHER -> NORTH]

\* the call is logged
Logged(w, l) ==
  [w EXCEPT !.actionLog = Append(@, [component |-> l.component, method |-> l.method])]

\* method(*args) on a device of the given type
Call(logged, type, l) ==
  CASE type = "Counter" /\ l.method = "set" ->
         [logged EXCEPT !.components[l.component].value = l.arg]
    [] type = "Counter" /\ l.method = "add" ->
         [logged EXCEPT !.components[l.component].value = @ + l.arg]
    [] type = "Counter" /\ l.method = "sub" ->
         [logged EXCEPT !.components[l.component].value = @ - l.arg]
    [] type = "Counter" /\ l.method = "clear" ->
         [logged EXCEPT !.components[l.component].value = 0]
    [] type = "Impulse" -> add_event(logged, l.method, TRUE)
    [] type = "Timer" /\ l.method = "start" ->
         [logged EXCEPT !.components[l.component].started = TRUE]
    [] type = "Timer" /\ l.method = "stop" ->
         [logged EXCEPT !.components[l.component].started = FALSE]
    [] type = "Mover" /\ l.method = "move_forward" -> move_forward(logged, l.component)
    [] type = "Mover" /\ l.method = "move_backward" -> move_backward(logged, l.component)
    [] type = "Mover" /\ l.method = "turn_left" -> turn_left(logged, l.component)
    [] type = "Mover" /\ l.method = "turn_right" -> turn_right(logged, l.component)

CallMethod(w, l) == Call(Logged(w, l), w.components[l.component].type, l)

RECURSIVE intepreter_action(_, _, _)
\* the lines of an action block from line i on; a line naming no known
\* component is passed over, a method that is not callable raises
intepreter_action(w, action, i) ==
  IF w.raised \/ i > Len(action) THEN w
  ELSE LET l == action[i]
       IN IF l.component \notin DOMAIN w.components
            THEN intepreter_action(w, action, i + 1)
          ELSE IF l.method \in Methods(w.components[l.component].type)
            THEN intepreter_action(CallMethod(w, l), action, i + 1)
            ELSE [w EXCEPT !.raised = TRUE]

(***************************************************************************)
(* The runtime handlers (execute_signal of State, InitialState,            *)
(* ChoiceState and FinalState) and the Q_* helpers.  A handler leaves its  *)
(* status in w.ret and the position of the signal it fired in w.fired.     *)
(***************************************************************************)
Q_HANDLED(w) == [w EXCEPT !.ret = Q_RET_HANDLED]
Q_TRAN(w, target) == [w EXCEPT !.target_ = target, !.ret = Q_RET_TRAN]
Q_SUPER(w, super_handler) == [w EXCEPT !.effective_ = super_handler, !.ret = Q_RET_SUPER]
QHsm_top(w) == [w EXCEPT !.ret = Q_RET_IGNORED]

\* states[parent].execute_signal, or QHsm_top without a parent
SuperOf(parent) == IF parent # NoParent THEN parent ELSE top

has_initial_state_child(sm, id) ==
  IF \E i \in 1..Len(sm.inital_states) : sm.inital_states[i].parent = id
    THEN sm.inital_states[CHOOSE i \in 1..Len(sm.inital_states) :
           /\ sm.inital_states[i].parent = id
           /\ \A j \in 1..(i - 1) : sm.inital_states[j].parent # id].id
    ELSE None

\* the status() of the signal that fired, after its action block ran
Status(w1, sig, i) ==
  IF w1.raised THEN w1
  ELSE IF sig.status = Q_RET_TRAN
    THEN [Q_TRAN(w1, sig.target) EXCEPT !.fired = i]
    ELSE [Q_HANDLED(w1) EXCEPT !.fired = i]

\* the signal fires: its action block runs, then its status() is returned
Fire(w, sig, i) == Status(intepreter_action(w, sig.action, 1), sig, i)

RECURSIVE ScanSignals(_, _, _, _)
\* a slip: the else signal fires where it stands in the list
ScanSignals_ElseInOrder(w, sigs, i, else_signal) ==
  IF i > Len(sigs) THEN w
  ELSE IF sigs[i].condition.op = "else" THEN Fire(w, sigs[i], i)
  ELSE LET c == intepreter_condition(w, sigs[i].condition)
       IN IF c.raised THEN [w EXCEPT !.raised = TRUE]
          ELSE IF c.val THEN Fire(w, sigs[i], i)
          ELSE ScanSignals(w, sigs, i + 1, else_signal)

\* the for loop over the signals from position i on: an else signal is
\* remembered and passed over, the first signal whose guard holds fires;
\* after the loop the remembered else signal fires
ScanSignals(w, sigs, i, else_signal) ==
  IF i > Len(sigs)
    THEN IF else_signal # 0 THEN Fire(w, sigs[else_signal], else_signal) ELSE w
  ELSE IF sigs[i].condition.op = "else"
    THEN ScanSignals(w, sigs, i + 1, i)
  ELSE LET c == intepreter_condition(w, sigs[i].condition)
       IN IF c.raised THEN [w EXCEPT !.raised = TRUE]
          ELSE IF c.val THEN Fire(w, sigs[i], i)
          ELSE ScanSignals(w, sigs, i + 1, else_signal)

State_execute_signal(sm, w, h, signal_name) ==
  LET self == Get(sm.states, h)
      sigs == IF signal_name \in DOMAIN self.signals
                THEN self.signals[signal_name] ELSE <<>>
      child == has_initial_state_child(sm, h)
      w1 == IF signal_name = Q_ENTRY_SIG /\ child # None
              THEN add_event(w, noconditionTransition, FALSE) ELSE w
  IN IF signal_name = noconditionTransition
       THEN IF child = None THEN Q_HANDLED(w1) ELSE Q_TRAN(w1, child)
       ELSE LET r == ScanSignals(w1, sigs, 1, 0)
            IN IF r.raised \/ r.fired # 0 THEN r
               ELSE Q_SUPER(r, SuperOf(self.parent))

InitialState_execute_signal(sm, w, h, signal_name) ==
  LET self == Get(sm.inital_states, h)
  IN IF signal_name = Q_ENTRY_SIG
       THEN Q_HANDLED(add_event(w, noconditionTransition, FALSE))
     ELSE IF signal_name = noconditionTransition
       THEN IF self.target \in Ids(sm.states)
              THEN Q_TRAN(w, self.target)
              ELSE [w EXCEPT !.raised = TRUE]
     ELSE Q_SUPER(w, SuperOf(self.parent))

\* a slip: the else branch is taken whenever the vertex has one
ChoiceState_execute_signal_ElseFirst(sm, w, h, signal_name) ==
  LET self == Get(sm.choice_states, h)
      els == {i \in 1..Len(self.conditions) : self.conditions[i].condition.op = "else"}
  IN IF signal_name = Q_ENTRY_SIG
       THEN Q_HANDLED(add_event(w, noconditionTransition, FALSE))
     ELSE IF signal_name = noconditionTransition
       THEN IF els # {}
              THEN LET i == CHOOSE i \in els : TRUE IN Fire(w, self.conditions[i], i)
              ELSE LET r == ScanSignals(w, self.conditions, 1, 0)
                   IN IF r.raised \/ r.fired # 0 THEN r ELSE [r EXCEPT !.ret = None]
     ELSE Q_SUPER(w, SuperOf(self.parent))

\* on noconditionTransition without a branch to take the method falls off
\* its end and returns None
ChoiceState_execute_signal(sm, w, h, signal_name) ==
  LET self == Get(sm.choice_states, h)
  IN IF signal_name = Q_ENTRY_SIG
       THEN Q_HANDLED(add_event(w, noconditionTransition, FALSE))
     ELSE IF signal_name = noconditionTransition
       THEN LET r == ScanSignals(w, self.conditions, 1, 0)
            IN IF r.raised \/ r.fired # 0 THEN r ELSE [r EXCEPT !.ret = None]
     ELSE Q_SUPER(w, SuperOf(self.parent))

FinalState_execute_signal(sm, w, h, signal_name) ==
  IF signal_name = Q_ENTRY_SIG
    THEN Q_HANDLED(add_event(w, break, FALSE))
    ELSE Q_SUPER(w, top)

\* states[h].execute_signal, the bound method the dispatcher calls
Handler(sm, w, h, signal_name) ==
  CASE Kind(sm, h) = "state" -> State_execute_signal(sm, w, h, signal_name)
    [] Kind(sm, h) = "initial" -> InitialState_execute_signal(sm, w, h, signal_name)
    [] Kind(sm, h) = "choice" -> ChoiceState_execute_signal(sm, w, h, signal_name)
    [] Kind(sm, h) = "final" -> FinalState_execute_signal(sm, w, h, signal_name)
    [] OTHER -> QHsm_top(w)

\* the trace entry of an invocation that took the world from w to r
Recorded(w, r, h, signal_name) ==
  [r EXCEPT !.trace = Append(@,
     [h |-> h, signal |-> signal_name, ret |-> r.ret, fired |-> r.fired,
      raised |-> r.raised, env |-> w.components,
      acts |-> SubSeq(r.actionLog, Len(w.actionLog) + 1, Len(r.actionLog)),
      posted |-> Len(r.events) - Len(w.events),
      target |-> r.target_, effective |-> r.effective_])]

\* handler(me, signal): one invocation of a handler, recorded in the trace
Exec(sm, w, h, signal_name) ==
  IF w.raised THEN w
  ELSE Recorded(w, Handler(sm, [w EXCEPT !.fired = 0], h, signal_name), h, signal_name)

(***************************************************************************)
(* do_transition and QMsm_dispatch (simulator.py 616-693).                 *)
(***************************************************************************)
\* source(me, Q_EXIT_SIG); source(me, QEP_EMPTY_SIG)
ExitSource(sm, w, source) ==
  Exec(sm, Exec(sm, w, source, Q_EXIT_SIG), source, QEP_EMPTY_SIG_)

RECURSIVE ExitToEffective(_, _, _, _)
\* source = me.effective_, and the loop test again
ExitToEffectiveNext(sm, w, effective) == ExitToEffective(sm, w, w.effective_, effective)

\* while source != effective: source(exit); source(empty); source = me.effective_
ExitToEffective(sm, w, source, effective) ==
  IF w.raised \/ source = effective THEN [w |-> w, source |-> source]
  ELSE ExitToEffectiveNext(sm, ExitSource(sm, w, source), effective)

RECURSIVE TargetPath(_, _, _, _)
\* target = me.effective_; top += 1; path[top] = target; the test for source
TargetPathNext(sm, w, path, source) ==
  IF Len(path) >= Q_MAX_DEPTH
    THEN [w |-> [w EXCEPT !.raised = TRUE], path |-> path, lca |-> -1]
  ELSE IF w.effective_ = source
    THEN [w |-> w, path |-> Append(path, w.effective_), lca |-> Len(path)]
  ELSE TargetPath(sm, w, Append(path, w.effective_), source)

\* while target != QHsm_top: record the chain above the target; lca is the
\* Python index at which the chain meets source, or -1
TargetPath(sm, w, path, source) ==
  IF w.raised \/ path[Len(path)] = top \/ path[Len(path)] = None
    THEN [w |-> w, path |-> path, lca |-> -1]
  ELSE TargetPathNext(sm, Exec(sm, w, path[Len(path)], QEP_EMPTY_SIG_), path, source)

RECURSIVE ExitToPath(_, _, _, _)
\* source = me.effective_; lca = the first index of source in path
ExitToPathNext(sm, w, path) ==
  LET hits == {i \in 1..Len(path) : path[i] = w.effective_}
  IN IF w.raised THEN [w |-> w, path |-> path, lca |-> -1]
     ELSE IF hits # {}
       THEN [w |-> w, path |-> path,
             lca |-> (CHOOSE i \in hits : \A j \in hits : i <= j) - 1]
     ELSE ExitToPath(sm, w, w.effective_, path)

\* while lca == -1: source(exit); source(empty); then the search above
ExitToPath(sm, w, source, path) == ExitToPathNext(sm, ExitSource(sm, w, source), path)

RECURSIVE EnterPath(_, _, _, _)
\* for i in range(lca - 1, -1, -1): path[i](entry)
EnterPath(sm, w, path, i) ==
  IF i < 0 THEN w
  ELSE EnterPath(sm, Exec(sm, w, path[i + 1], Q_ENTRY_SIG), path, i - 1)

\* a slip: the requested target is left in target_
SetCurrent_KeepsTarget(w, target) ==
  IF w.raised THEN w
  ELSE [w EXCEPT !.current_ = target, !.effective_ = target]

\* me.current_ = target; me.effective_ = target; me.target_ = None
SetCurrent(w, target) ==
  IF w.raised THEN w
  ELSE [w EXCEPT !.current_ = target, !.effective_ = target, !.target_ = None]

\* the second while loop, entered only while lca == -1
FindLca(sm, tp, source) ==
  IF tp.w.raised \/ tp.lca # -1 THEN tp
  ELSE ExitToPath(sm, tp.w, source, tp.path)

\* if lca == 0 and target is not None: target(entry); then the entries
\* down the path
EnterTarget(sm, found, target) ==
  EnterPath(sm, IF found.lca = 0 /\ target # None
                  THEN Exec(sm, found.w, target, Q_ENTRY_SIG) ELSE found.w,
            found.path, found.lca - 1)

\* a slip: a transition of a state to itself enters it without leaving it
Transit_SelfWithoutExit(sm, up, target) ==
  IF up.w.raised THEN up.w
  ELSE IF up.source = target
    THEN SetCurrent(Exec(sm, up.w, target, Q_ENTRY_SIG), target)
  ELSE SetCurrent(
         EnterTarget(sm, FindLca(sm, TargetPath(sm, up.w, <<target>>, up.source),
                                 up.source), target),
         target)

\* do_transition after its first loop, which left the world up.w and the
\* local source up.source
Transit(sm, up, target) ==
  IF up.w.raised THEN up.w
  ELSE IF up.source = target
    THEN SetCurrent(Exec(sm, Exec(sm, up.w, up.source, Q_EXIT_SIG), target, Q_ENTRY_SIG),
                    target)
  ELSE SetCurrent(
         EnterTarget(sm, FindLca(sm, TargetPath(sm, up.w, <<target>>, up.source),
                                 up.source), target),
         target)

do_transition(sm, w) ==
  Transit(sm, ExitToEffective(sm, w, w.current_, w.effective_), w.target_)

RECURSIVE Climb(_, _, _)
\* while result == Q_RET_SUPER: result = me.effective_(me, event)
Climb(sm, w, e) ==
  IF ~w.raised /\ w.ret = Q_RET_SUPER
    THEN Climb(sm, Exec(sm, w, w.effective_, e), e)
    ELSE w

\* a slip: after an unhandled event current_ is set from effective_
AfterClimb_CurrentFromEffective(sm, r) ==
  IF r.raised THEN r
  ELSE IF r.ret = Q_RET_TRAN
    THEN [do_transition(sm, r) EXCEPT !.ret = Q_RET_TRAN]
  ELSE IF r.ret \in {Q_RET_HANDLED, Q_RET_UNHANDLED, Q_RET_IGNORED}
    THEN [r EXCEPT !.current_ = r.effective_]
  ELSE r

\* the branches on result after the climb
AfterClimb(sm, r) ==
  IF r.raised THEN r
  ELSE IF r.ret = Q_RET_TRAN
    THEN [do_transition(sm, r) EXCEPT !.ret = Q_RET_TRAN]
  ELSE IF r.ret \in {Q_RET_HANDLED, Q_RET_UNHANDLED, Q_RET_IGNORED}
    THEN [r EXCEPT !.effective_ = r.current_]
  ELSE r

\* w.ret holds the returned result
QMsm_dispatch(sm, w, e) == AfterClimb(sm, Climb(sm, Exec(sm, w, w.current_, e), e))

(***************************************************************************)
(* The driver run_state_machine (simulator.py 3321-3367) and the host.     *)
(***************************************************************************)
BoundedSeq(S, n) == UNION {[1..k -> S] : k \in 0..n}

SM == StateMachine(Machine(m))

\* the state a handler can touch, for the operators above
World ==
  [events |-> events, called_events |-> called_events,
   current_event_idx |-> current_event_idx, insert_event_idx |-> insert_event_idx,
   current_ |-> current_, effective_ |-> effective_, target_ |-> target_,
   components |-> components, raised |-> raised, crash |-> crash,
   ret |-> None, fired |-> 0,
   trace |-> <<>>, actionLog |-> actionLog]

Commit(w) ==
  /\ events' = w.events
  /\ called_events' = w.called_events
  /\ current_event_idx' = w.current_event_idx
  /\ insert_event_idx' = w.insert_event_idx
  /\ current_' = w.current_
  /\ effective_' = w.effective_
  /\ target_' = w.target_
  /\ components' = w.components
  /\ raised' = w.raised
  /\ crash' = w.crash
  /\ trace' = w.trace
  /\ actionLog' = w.actionLog

Running ==
  pc \notin {"init", "done", "aborted", "returned", "api", "parse", "parsed", "build",
             "args", "parsedArgs", "host", "device"}

\* the entry points that build a StateMachine and call run_state_machine:
\* CyberBearVisualizer._start_simulation (the one infinite run, signals = []),
\* JuniorGardenerVisualizer.run_state_machine (signals = []), and the
\* auto tests, which pass their entry_signals
Callers(id) ==
  IF id = "garden" THEN {"JuniorGardenerVisualizer", "auto_test_gardener"}
  ELSE {"CyberBearVisualizer", "auto_test_reader"}

\* parts of the state that a run does not use
NoHost ==
  app = <<>> /\ last = <<>> /\ ran = <<>> /\ runs = 0 /\ loads = 0 /\ earlier = <<>>

NoParser ==
  /\ graph = <<>> /\ elements = <<>> /\ arguments = <<>> /\ args_str = <<>> /\ args = <<>>
  /\ NoHost

NoBuilder == cgml = <<>> /\ built = <<>>

\* after StateMachine(sm, parameters): qhsm.post_init(initial.execute_signal).
\* The one caller that runs in infinite mode passes signals = [].
Init ==
  /\ NoParser /\ NoBuilder
  /\ m \in MachineIds
  /\ caller \in Callers(m)
  /\ signals \in BoundedSeq(Machine(m).alphabet, MaxSignals)
  /\ caller = "JuniorGardenerVisualizer" => signals = <<>>
  /\ isInfinite = (caller = "CyberBearVisualizer")
  /\ isInfinite => signals = <<>>
  /\ result = None /\ crash = FALSE
  /\ events = <<>> /\ called_events = <<>>
  /\ current_event_idx = 0 /\ insert_event_idx = 0
  /\ current_ = SM.initial /\ effective_ = SM.initial /\ target_ = None
  /\ \E height \in 1..MaxField :
       components = get_sm_options(init_components(Machine(m)), Gardener(1, height))
  /\ raised = FALSE
  /\ pc = "init" /\ event = None /\ timeout = FALSE
  /\ elapsed = 0 /\ hostBreaks = 0
  /\ trace = <<>> /\ actionLog = <<>> /\ dispatched = <<>> /\ got = <<>>
  /\ hist = <<>>

RECURSIVE PostAll(_, _, _)
\* for event in signals: EventLoop.add_event(event)
PostAll(w, evs, i) ==
  IF i > Len(evs) THEN w ELSE PostAll(add_event(w, evs[i], FALSE), evs, i + 1)

\* lines 3331-3340: clear, the entry of the initial handler, the pre-posted
\* signals, timeout = False, start_time
RunStart ==
  /\ pc = "init"
  /\ LET w == PostAll(Exec(SM, clear(World), current_, Q_ENTRY_SIG), signals, 1)
     IN /\ Commit(w)
        /\ pc' = IF w.raised THEN "aborted" ELSE "loop"
  /\ timeout' = FALSE
  /\ UNCHANGED <<parserVars, builderVars, caller, result, m, signals, isInfinite,
                 event, elapsed, hostBreaks, dispatched,
                 got, hist>>

\* event = EventLoop.get_event(), at the head of the loop (line 3344), inside
\* the inner while (line 3347) and after the polling (line 3352)
GetStep(to) ==
  /\ event' = get_event_result(World)
  /\ current_event_idx' = get_event(World).current_event_idx
  /\ insert_event_idx' = get_event(World).insert_event_idx
  /\ got' = IF event' = None THEN got ELSE Append(got, event')
  /\ pc' = to
  /\ UNCHANGED <<parserVars, builderVars, caller, result, m, signals, isInfinite,
                 events, called_events, current_, effective_,
                 target_, components, raised, crash, timeout, elapsed, hostBreaks, trace,
                 actionLog, dispatched, hist>>

LoopGet == pc = "loop" /\ GetStep("while")

WhileGet == pc = "whileget" /\ GetStep("while")

PollGet == pc = "poll" /\ GetStep("check")

\* SIMPLE_DISPATCH(qhsm, event)
DispatchStep(to) ==
  /\ Len(events) < MaxEvents
  /\ LET w == QMsm_dispatch(SM, World, event)
     IN /\ Commit(w)
        /\ pc' = IF w.raised THEN "aborted" ELSE to
  /\ dispatched' = Append(dispatched, event)
  /\ UNCHANGED <<parserVars, builderVars, caller, result, m, signals, isInfinite,
                 event, timeout, elapsed, hostBreaks, got, hist>>

\* while event in default_signals: SIMPLE_DISPATCH(qhsm, event)
WhileDispatch ==
  /\ pc = "while"
  /\ event \in default_signals
  /\ DispatchStep("whileget")

TimeoutEvent(name) == name \o ".timeout"

RECURSIVE PollAll(_, _, _, _)
\* for component in sm.components.values(): component.obj.loop_actions();
\* expired is the set of timers whose interval has run out by now
PollAll(w, comps, i, expired) ==
  IF i > Len(comps) THEN w
  ELSE IF comps[i].id \in expired
    THEN PollAll(add_event(w, TimeoutEvent(comps[i].id), FALSE), comps, i + 1, expired)
    ELSE PollAll(w, comps, i + 1, expired)

\* the inner while is left with event not in default_signals, then the
\* components are polled (lines 3349-3351)
LoopActions ==
  /\ pc = "while"
  /\ event \notin default_signals
  /\ \E expired \in SUBSET {c \in DOMAIN components :
                              /\ components[c].type = "Timer"
                              /\ components[c].started
                              /\ Len(events) < MaxEvents} :
       Commit([PollAll(World, Machine(m).components, 1, expired) EXCEPT !.trace = trace])
  /\ pc' = "poll"
  /\ UNCHANGED <<parserVars, builderVars, caller, result, m, signals, isInfinite,
                 event, timeout, elapsed, hostBreaks,
                 dispatched, got, hist>>

Stay(to) ==
  /\ pc' = to
  /\ UNCHANGED <<parserVars, builderVars, caller, result, m, signals, isInfinite,
                 events, called_events, current_event_idx,
                 insert_event_idx, current_, effective_, target_, components, raised, crash,
                 event, timeout, elapsed, hostBreaks, trace, actionLog, dispatched,
                 got, hist>>

\* if event is None: if isInfinite: time.sleep(0.1); continue
Idle == pc = "check" /\ event = None /\ isInfinite /\ Stay("sleep")

Wake == pc = "sleep" /\ Stay("loop")

\* if event is None: break
Drained == pc = "check" /\ event = None /\ ~isInfinite /\ Stay("done")

\* if event == 'break': break
Break == pc = "check" /\ event = break /\ Stay("done")

\* SIMPLE_DISPATCH(qhsm, event) at the end of the loop body (line 3360)
Dispatch ==
  /\ pc = "check"
  /\ event \notin {None, break}
  /\ DispatchStep("loop")

\* CyberBearVisualizer.stop_simulation, on the host's thread, while the
\* infinite run is on the worker thread
HostStop ==
  /\ Running
  /\ isInfinite
  /\ hostBreaks < MaxHostBreaks
  /\ events' = Append(events, break)
  /\ hostBreaks' = hostBreaks + 1
  /\ UNCHANGED <<parserVars, builderVars, caller, result, m, signals, isInfinite,
                 called_events, current_event_idx,
                 insert_event_idx, current_, effective_, target_, components, raised, crash,
                 pc, event, timeout, elapsed, trace, actionLog, dispatched, got, hist>>

\* the wall clock advances while the run is under way
TimePasses ==
  /\ Running
  /\ elapsed < MaxElapsed
  /\ elapsed' = elapsed + 1
  /\ UNCHANGED <<parserVars, builderVars, caller, result, m, signals, isInfinite,
                 events, called_events, current_event_idx,
                 insert_event_idx, current_, effective_, target_, components, raised, crash,
                 pc, event, timeout, hostBreaks, trace, actionLog, dispatched, got,
                 hist>>

StateMachineResult(t) ==
  [type |-> "StateMachineResult", timeout |-> t, signals |-> events,
   called_signals |-> called_events]

\* the caller receives r
Receive(r) ==
  /\ result' = r
  /\ pc' = "returned"
  /\ UNCHANGED <<parserVars, builderVars, caller, m, signals, isInfinite, events,
                 called_events, current_event_idx, insert_event_idx, current_,
                 effective_, target_, components, raised, crash, event, timeout,
                 elapsed, hostBreaks, trace, actionLog, dispatched, got, hist>>

\* return StateMachineResult(timeout, EventLoop.events,
\* EventLoop.called_events, sm.components), handed on by every caller
Return == pc = "done" /\ Receive(StateMachineResult(timeout))

\* an exception leaves run_state_machine: the auto tests have no handler,
\* JuniorGardenerVisualizer answers a GardenerCrashException with a result
\* whose timeout is True, and the visualizers turn any other exception into
\* None
Except ==
  /\ pc = "aborted"
  /\ Receive(IF caller \in {"auto_test_reader", "auto_test_gardener"}
               THEN [type |-> IF crash THEN "GardenerCrashException" ELSE "Exception"]
             ELSE IF caller = "JuniorGardenerVisualizer" /\ crash
               THEN StateMachineResult(TRUE)
             ELSE [type |-> "None"])

Driver ==
  \/ RunStart \/ LoopGet \/ WhileDispatch \/ WhileGet \/ LoopActions \/ PollGet
  \/ Idle \/ Wake \/ Drained \/ Break \/ Dispatch \/ Return \/ Except

Next == Driver \/ HostStop \/ TimePasses

Spec == Init /\ [][Next]_vars

(***************************************************************************)
(* The run on the worker thread BaseVisualizer.run_state_machine starts    *)
(* (base.py 63-67), with the host's thread beside it: a dispatch takes     *)
(* time, and CyberBearVisualizer.stop_simulation (CyberBear.py 220-224)    *)
(* may run while one is under way.                                         *)
(***************************************************************************)

\* SIMPLE_DISPATCH(qhsm, event) has been called and has not returned
Dispatching == pc \in {"whiledispatch", "dispatch"}

\* the inner while calls SIMPLE_DISPATCH (line 3346)
WhileDispatchBegin ==
  /\ pc = "while"
  /\ event \in default_signals
  /\ Len(events) < MaxEvents
  /\ Stay("whiledispatch")

WhileDispatchEnd == pc = "whiledispatch" /\ DispatchStep("whileget")

\* the loop body calls SIMPLE_DISPATCH (line 3360)
DispatchBegin ==
  /\ pc = "check"
  /\ event \notin {None, break}
  /\ Len(events) < MaxEvents
  /\ Stay("dispatch")

DispatchEnd == pc = "dispatch" /\ DispatchStep("loop")

ThreadDriver ==
  \/ RunStart \/ LoopGet \/ WhileDispatchBegin \/ WhileDispatchEnd \/ WhileGet
  \/ LoopActions \/ PollGet \/ Idle \/ Wake \/ Drained \/ Break \/ DispatchBegin
  \/ DispatchEnd \/ Return \/ Except

ThreadNext == ThreadDriver \/ HostStop \/ TimePasses

ThreadSpec == Init /\ [][ThreadNext]_vars

(***************************************************************************)
(* One run after another.  EventLoop.events and EventLoop.called_events    *)
(* are class attributes bound once to a list each (lines 528-529) and      *)
(* only ever changed in place, so the StateMachineResult of a run holds    *)
(* these two list objects: `earlier` keeps, for every finished run, the    *)
(* two references and what the lists held when the run returned.           *)
(***************************************************************************)

MaxReruns == 1        \* runs started after the first one
MaxRerunSignals == 1  \* longest list of signals passed to a run of a series

\* the list object a reference of a result stands for, as it is now
Deref(ref) == IF ref = "EventLoop.events" THEN events ELSE called_events

RerunInit == Init /\ Len(signals) <= MaxRerunSignals

\* the caller keeps the result and calls its entry point again: a new
\* StateMachine(cgml_sm, ...) and run_state_machine(sm, signals), e.g.
\* auto_test_reader (3420-3434); the EventLoop is the same class
Rerun ==
  /\ pc = "returned"
  /\ Len(earlier) < MaxReruns
  /\ result.type = "StateMachineResult"
  /\ earlier' = Append(earlier, [signals |-> "EventLoop.events",
                                 called_signals |-> "EventLoop.called_events",
                                 returned |-> result])
  /\ signals' \in BoundedSeq(Machine(m).alphabet, MaxRerunSignals)
  /\ (caller = "JuniorGardenerVisualizer" \/ isInfinite) => signals' = <<>>
  /\ result' = None /\ crash' = FALSE
  /\ current_' = SM.initial /\ effective_' = SM.initial /\ target_' = None
  /\ \E height \in 1..MaxField :
       components' = get_sm_options(init_components(Machine(m)), Gardener(1, height))
  /\ raised' = FALSE
  /\ pc' = "init" /\ event' = None /\ timeout' = FALSE
  /\ trace' = <<>> /\ actionLog' = <<>> /\ dispatched' = <<>> /\ got' = <<>>
  /\ UNCHANGED <<graph, elements, arguments, args_str, args, app, last, ran, runs,
                 loads, builderVars, caller, m, isInfinite, events, called_events,
                 current_event_idx, insert_event_idx, elapsed, hostBreaks, hist>>

RerunNext == Next \/ Rerun

RerunSpec == RerunInit /\ [][RerunNext]_vars

TypeOK ==
  /\ pc \in {"init", "loop", "while", "whileget", "poll", "check", "sleep", "done",
            "aborted", "returned"}
  /\ current_event_idx \in 0..Len(events)
  /\ timeout \in BOOLEAN

(***************************************************************************)
(* The EventLoop on its own: any caller's sequence of add_event, get_event *)
(* and clear calls, starting from the class as it is defined.              *)
(***************************************************************************)
ApiAlphabet == {"a", "b", "c"}

Pending(w) == SubSeq(w.events, w.current_event_idx + 1, Len(w.events))

ApiInit ==
  /\ NoParser /\ NoBuilder
  /\ caller = "EventLoop" /\ result = None /\ crash = FALSE
  /\ m = "toggle" /\ signals = <<>> /\ isInfinite = FALSE
  /\ events = <<>> /\ called_events = <<>>
  /\ current_event_idx = 0 /\ insert_event_idx = 0
  /\ current_ = SM.initial /\ effective_ = SM.initial /\ target_ = None
  /\ components = init_components(Machine(m))
  /\ raised = FALSE
  /\ pc = "api" /\ event = None /\ timeout = FALSE
  /\ elapsed = 0 /\ hostBreaks = 0
  /\ trace = <<>> /\ actionLog = <<>> /\ dispatched = <<>> /\ got = <<>>
  /\ hist = <<>>

ApiCommit(w, call) ==
  /\ events' = w.events
  /\ called_events' = w.called_events
  /\ current_event_idx' = w.current_event_idx
  /\ insert_event_idx' = w.insert_event_idx
  /\ hist' = Append(hist, call)
  /\ UNCHANGED <<parserVars, builderVars, caller, result, m, signals, isInfinite,
                 current_, effective_, target_, components,
                 raised, crash, pc, event, timeout, elapsed, hostBreaks, trace, actionLog,
                 dispatched, got>>

\* EventLoop.add_event(e, is_called); the event c is the one a device posts
ApiAdd ==
  /\ Len(hist) < MaxApiCalls
  /\ \E e \in ApiAlphabet, is_called \in BOOLEAN :
       /\ is_called => e = "c"
       /\ LET w == add_event(World, e, is_called)
          IN ApiCommit(w, [op |-> "add", ev |-> e, pending |-> Pending(w)])

\* EventLoop.get_event()
ApiGet ==
  /\ Len(hist) < MaxApiCalls
  /\ LET w == get_event(World)
     IN ApiCommit(w, [op |-> "get", ev |-> get_event_result(World),
                      pending |-> Pending(w)])

\* EventLoop.clear()
ApiClear ==
  /\ Len(hist) < MaxApiCalls
  /\ ApiCommit(clear(World), [op |-> "clear", ev |-> None, pending |-> <<>>])

ApiNext == ApiAdd \/ ApiGet \/ ApiClear

ApiSpec == ApiInit /\ [][ApiNext]_vars

RECURSIVE NextGets(_, _)
\* what the next n calls of get_event return
NextGets(w, n) ==
  IF n = 0 THEN <<>>
  ELSE <<get_event_result(w)>> \o NextGets(get_event(w), n - 1)

(***************************************************************************)
(* StateMachine(sm, sm_parameters) on its own: a host holds one parsed     *)
(* CGMLStateMachine and builds from it, possibly more than once            *)
(* (simulator.py 2738-2764, 3152-3310).                                    *)
(***************************************************************************)
ComponentTypeNotFound == "Component type not found."
GardenerIsNone == "Gardener is None!"
TargetNotFound == "Target state not found for choice transition."
NoInitialState == "No initial state found in the state machine."

\* the component classes the module defines, as far as they are modelled
ComponentClasses == {"Counter", "Impulse", "Timer", "Mover"}

\* a component declaration of the parsed model, with its parameters dict
Declared(i, t, p) == [id |-> i, type |-> t, parameters |-> p]

\* parameters.update(sm_parameters)
Update(parameters, sm_parameters) ==
  [k \in DOMAIN parameters \cup DOMAIN sm_parameters |->
     IF k \in DOMAIN sm_parameters THEN sm_parameters[k] ELSE parameters[k]]

RECURSIVE ConstructComponents(_, _, _)
\* the loop of init_components from component i on: the declaration's own
\* dict receives the global parameters, then the device is constructed;
\* the loop ends at the first declaration that raises
ConstructComponents(comps, sm_parameters, i) ==
  IF i > Len(comps) THEN [components |-> comps, error |-> None]
  ELSE IF comps[i].type \notin ComponentClasses
    THEN [components |-> comps, error |-> ComponentTypeNotFound]
  ELSE IF comps[i].type = "Mover" /\ "gardener" \notin DOMAIN sm_parameters
    THEN [components |->
            [comps EXCEPT ![i].parameters = Update(@, sm_parameters)],
          error |-> GardenerIsNone]
  ELSE ConstructComponents(
         [comps EXCEPT ![i].parameters = Update(@, sm_parameters)],
         sm_parameters, i + 1)

\* the ids post_init_choice_states and init_states can resolve
Resolvable(M) ==
  Ids(M.states) \cup Ids(init_initial_states(M)) \cup Ids(M.finals) \cup Ids(M.choices)

\* the transitions init_states passes over: the source is a state and the
\* target is none of the vertices it knows
Dropped(M) ==
  SelectSeq(M.transitions,
            LAMBDA t : t.source \in Ids(M.states) /\ t.target \notin Resolvable(M))

\* the exception that ends StateMachine.__init__ after its components were
\* constructed, or None
StructureError(M) ==
  IF \E i \in 1..Len(M.transitions) :
       /\ M.transitions[i].source \in Ids(M.choices)
       /\ M.transitions[i].target \notin Resolvable(M)
    THEN TargetNotFound
  ELSE IF find_highest_level_initial_state(init_initial_states(M)) = None
    THEN NoInitialState
  ELSE None

\* the parsed models a host may hold: top-level initial vertices in tops, an
\* initial vertex inside A, a transition from the state A and a branch of
\* the choice c to targets that may or may not resolve; h is a
\* shallowHistory vertex; or the empty machine
Parsed(tops, nested, stateTarget, choiceTarget) ==
  [states |-> <<CGMLState("A", NoParent, <<>>), CGMLState("B", "A", <<>>)>>,
   initial_states |->
     SeqMap(LAMBDA i : CGMLVertex(i, NoParent), tops) \o
     (IF nested THEN <<CGMLVertex("k", "A")>> ELSE <<>>),
   finals |-> <<CGMLVertex("F", NoParent)>>,
   choices |-> <<CGMLVertex("c", NoParent)>>,
   shallow_history |-> <<CGMLVertex("h", NoParent)>>,
   transitions |->
     SeqMap(LAMBDA i : CGMLTransition(i, "A", "", NoCond, NoAction), tops) \o
     (IF nested THEN <<CGMLTransition("k", "B", "", NoCond, NoAction)>> ELSE <<>>) \o
     <<CGMLTransition("A", stateTarget, "go", NoCond, NoAction),
       CGMLTransition("c", choiceTarget, "", Else, NoAction)>>,
   components |-> <<Declared("cnt", "Counter", <<>>)>>]

EmptyMachine ==
  [states |-> <<>>, initial_states |-> <<>>, finals |-> <<>>, choices |-> <<>>,
   shallow_history |-> <<>>, transitions |-> <<>>, components |-> <<>>]

ParsedModels ==
  {EmptyMachine} \cup
  {Parsed(tops, nested, stateTarget, choiceTarget) :
     tops \in {<<>>, <<"i">>, <<"i", "j">>}, nested \in BOOLEAN,
     stateTarget \in {"B", "F", "c", "h", "ghost"}, choiceTarget \in {"B", "ghost"}}

\* the sm_parameters a host passes
Parameters ==
  {<<>>, [gardener |-> "g1"], [gardener |-> "g2"], [message |-> "hello"]}

BuildInit ==
  /\ NoParser
  /\ cgml \in ParsedModels
  /\ built = <<>>
  /\ caller = "StateMachine" /\ result = None /\ crash = FALSE
  /\ m = "toggle" /\ signals = <<>> /\ isInfinite = FALSE
  /\ events = <<>> /\ called_events = <<>>
  /\ current_event_idx = 0 /\ insert_event_idx = 0
  /\ current_ = None /\ effective_ = None /\ target_ = None
  /\ components = <<>>
  /\ raised = FALSE
  /\ pc = "build" /\ event = None /\ timeout = FALSE
  /\ elapsed = 0 /\ hostBreaks = 0
  /\ trace = <<>> /\ actionLog = <<>> /\ dispatched = <<>> /\ got = <<>>
  /\ hist = <<>>

\* the record of one StateMachine(cgml, sm_parameters) call: what it was
\* given, what its components received, and how it ended
Built(before, sm_parameters, made) ==
  [declared |-> before.components,
   sm_parameters |-> sm_parameters,
   received |-> made.components,
   error |-> IF made.error # None THEN made.error ELSE StructureError(before),
   initial |-> find_highest_level_initial_state(init_initial_states(before)),
   dropped |-> Dropped(before)]

\* sm = StateMachine(cgml, sm_parameters)
Construct ==
  /\ pc = "build"
  /\ Len(built) < MaxBuilds
  /\ \E sm_parameters \in Parameters :
       /\ cgml' = [cgml EXCEPT !.components =
                     ConstructComponents(cgml.components, sm_parameters, 1).components]
       /\ built' = Append(built,
                     Built(cgml, sm_parameters,
                           ConstructComponents(cgml.components, sm_parameters, 1)))
  /\ UNCHANGED <<parserVars, caller, result, crash, m, signals, isInfinite, events,
                 called_events, current_event_idx, insert_event_idx, current_,
                 effective_, target_, components, raised, pc, event, timeout,
                 elapsed, hostBreaks, trace, actionLog, dispatched, got, hist>>

BuildNext == Construct

BuildSpec == BuildInit /\ [][BuildNext]_vars

(***************************************************************************)
(* CGMLParser.parse_cgml (simulator.py 2351-2478) on one <graph>.  A node  *)
(* carries the data nodes _process_state_data reads: dNote, dVertex, dName *)
(* and dData, the last as the lines "name/value" _parse_meta splits.  A    *)
(* dict is a sequence of records in insertion order, keyed by id.          *)
(***************************************************************************)

MaxNodes == 2
MaxEdges == 1

DoubleMeta == "Double meta nodes!"
NoPlatform == "No platform or standardVersion."
NoTypeOrId == "Component doesn't have type or id."

\* types.py is_vertex_type
is_vertex_type(value) ==
  value \in {"choice", "initial", "final", "terminate", "shallowHistory"}

CGMLMeta(id, values) == [id |-> id, values |-> values]

_is_empty_meta(meta) == meta.values = <<>> /\ meta.id = ""

\* the dict of the lines "name/value" of a text; a later line overrides
_parse_meta(text) ==
  IF text = <<>> THEN <<>>
  ELSE [n \in {text[i].name : i \in 1..Len(text)} |->
          text[CHOOSE i \in 1..Len(text) :
                 /\ text[i].name = n
                 /\ \A j \in (i + 1)..Len(text) : text[j].name # n].value]

Parameter(name, value) == [name |-> name, value |-> value]

Node(dNote, dVertex, dName, dData) ==
  [dNote |-> dNote, dVertex |-> dVertex, dName |-> dName, dData |-> dData]

\* the nodes a scheme holds: a state, the vertices, an informal note, a
\* node that carries dNote and dVertex both, a formal note of no known name,
\* the meta note with and without standardVersion, and a component note with
\* and without type
NodeShapes ==
  {Node(None, None, "A", <<>>)} \cup
  {Node(None, t, "", <<>>) :
     t \in {"choice", "initial", "final", "terminate", "shallowHistory", "bogus"}} \cup
  {Node("informal", None, "", <<>>),
   Node("informal", "choice", "", <<>>),
   Node("formal", None, "remark", <<>>),
   Node("formal", None, "CGML_META",
        <<Parameter("platform", "BearlogaDefend"), Parameter("standardVersion", "1.0")>>),
   Node("formal", None, "CGML_META", <<Parameter("platform", "BearlogaDefend")>>),
   Node("formal", None, "CGML_COMPONENT", <<Parameter("id", "cnt"), Parameter("type", "Counter")>>),
   Node("formal", None, "CGML_COMPONENT", <<Parameter("id", "cnt")>>)}

NodeIds == <<"n1", "n2", "n3", "n4">>

\* an edge may name a node of the graph, or an id no node has
Endpoints == {"n1", "n2", "zz"}

EdgeIds == <<"e1", "e2", "e3">>

CGMLEdge(id, source, target) == [id |-> id, source |-> source, target |-> target]

\* graphs is to_list(node.graph): the <graph> children of the node
CGMLNode(id, data, graphs) == [id |-> id, data |-> data, graph |-> graphs]

\* the <graph> children a node may hold: none, or one with the child state
\* c1 and at most one <edge> of its own, from c1 to itself or to the
\* enclosing node
SubGraphs ==
  {<<>>} \cup
  {<<[nodes |-> <<CGMLNode("c1", Node(None, None, "B", <<>>), <<>>)>>, edges |-> es]>> :
     es \in {<<>>, <<CGMLEdge("c1e", "c1", "c1")>>, <<CGMLEdge("c1e", "c1", "n1")>>}}

\* the first node of a graph is the one that may hold a nested graph
Graphs ==
  {[nodes |-> [i \in 1..Len(shapes) |->
                 CGMLNode(NodeIds[i], shapes[i], IF i = 1 THEN sub ELSE <<>>)],
    edges |-> [i \in 1..Len(ends) |-> CGMLEdge(EdgeIds[i], ends[i][1], ends[i][2])]] :
     shapes \in BoundedSeq(NodeShapes, MaxNodes),
     ends \in BoundedSeq(Endpoints \X Endpoints, MaxEdges),
     sub \in SubGraphs}

\* parse_cgml's locals at the top of the loop over graphs (2366-2380)
Locals ==
  [platform |-> "", standard_version |-> "", meta |-> CGMLMeta("", <<>>),
   states |-> <<>>, transitions |-> <<>>, notes |-> <<>>, terminates |-> <<>>,
   finals |-> <<>>, choices |-> <<>>, initial_states |-> <<>>,
   unknown_vertexes |-> <<>>, components |-> <<>>, shallow_history |-> <<>>,
   error |-> None]

\* vertex_dicts (2382-2388)
Put(l, type, entry) ==
  CASE type = "initial" -> [l EXCEPT !.initial_states = Append(@, entry)]
    [] type = "choice" -> [l EXCEPT !.choices = Append(@, entry)]
    [] type = "final" -> [l EXCEPT !.finals = Append(@, entry)]
    [] type = "terminate" -> [l EXCEPT !.terminates = Append(@, entry)]
    [] type = "shallowHistory" -> [l EXCEPT !.shallow_history = Append(@, entry)]

Fail(l, error) == [l EXCEPT !.error = error]

\* the CGML_META branch (2401-2409): meta.id and meta.values are assigned
\* before platform and standardVersion are looked up
MetaNote(l, state_id, values) ==
  IF ~_is_empty_meta(l.meta) THEN Fail(l, DoubleMeta)
  ELSE IF {"platform", "standardVersion"} \subseteq DOMAIN values
    THEN [l EXCEPT !.meta = CGMLMeta(state_id, values),
                   !.platform = values["platform"],
                   !.standard_version = values["standardVersion"]]
    ELSE Fail([l EXCEPT !.meta = CGMLMeta(state_id, values)], NoPlatform)

\* the CGML_COMPONENT branch (2410-2426)
ComponentNote(l, state_id, values) ==
  IF {"id", "type"} \subseteq DOMAIN values
    THEN [l EXCEPT !.components =
            Append(@, [id |-> state_id, component |-> values["id"],
                       type |-> values["type"]])]
    ELSE Fail(l, NoTypeOrId)

\* one turn of the loop over states where _process_state_data looks at
\* dVertex before dNote
ProcessNode_VertexFirst(l, node) ==
  IF node.data.dVertex # None
    THEN IF is_vertex_type(node.data.dVertex)
           THEN Put(l, node.data.dVertex, [id |-> node.id, type |-> node.data.dVertex])
           ELSE [l EXCEPT !.unknown_vertexes =
                   Append(@, [id |-> node.id, type |-> node.data.dVertex])]
  ELSE IF node.data.dNote # None
    THEN IF node.data.dNote = "informal"
           THEN [l EXCEPT !.notes = Append(@, [id |-> node.id])]
           ELSE CASE node.data.dName = "CGML_META" ->
                       MetaNote(l, node.id, _parse_meta(node.data.dData))
                  [] node.data.dName = "CGML_COMPONENT" ->
                       ComponentNote(l, node.id, _parse_meta(node.data.dData))
                  [] OTHER -> l
  ELSE [l EXCEPT !.states = Append(@, [id |-> node.id, name |-> node.data.dName])]

\* one turn of the loop over states (2393-2447), on what
\* _process_state_data (2550-2628) makes of the node: a note when dNote is
\* there, a vertex when dVertex is, a state otherwise
ProcessNode(l, node) ==
  IF node.data.dNote # None
    THEN IF node.data.dNote = "informal"
           THEN [l EXCEPT !.notes = Append(@, [id |-> node.id])]
           ELSE CASE node.data.dName = "CGML_META" ->
                       MetaNote(l, node.id, _parse_meta(node.data.dData))
                  [] node.data.dName = "CGML_COMPONENT" ->
                       ComponentNote(l, node.id, _parse_meta(node.data.dData))
                  [] OTHER -> l
  ELSE IF node.data.dVertex # None
    THEN IF is_vertex_type(node.data.dVertex)
           THEN Put(l, node.data.dVertex, [id |-> node.id, type |-> node.data.dVertex])
           ELSE [l EXCEPT !.unknown_vertexes =
                   Append(@, [id |-> node.id, type |-> node.data.dVertex])]
  ELSE [l EXCEPT !.states = Append(@, [id |-> node.id, name |-> node.data.dName])]

RECURSIVE ProcessNodes(_, _, _)
ProcessNodes(l, nodes, i) ==
  IF i > Len(nodes) \/ l.error # None THEN l
  ELSE ProcessNodes(ProcessNode(l, nodes[i]), nodes, i + 1)

\* _parse_graph_edges (2630-2647): the <edge> children of the root graph
_parse_graph_edges(root) == root.edges

RECURSIVE _parse_graph_nodes(_, _), parse_node(_, _), parse_nodes(_, _, _)
\* _parse_graph_nodes (2649-2672): the nodes of root, each followed by the
\* nodes of the graphs it holds, with the enclosing node as parent
_parse_graph_nodes(root, parent) == parse_nodes(root.nodes, 1, parent)

parse_nodes(nodes, i, parent) ==
  IF i > Len(nodes) THEN <<>>
  ELSE parse_node(nodes[i], parent) \o parse_nodes(nodes, i + 1, parent)

parse_node(node, parent) ==
  <<[id |-> node.id, data |-> node.data, parent |-> parent]>>
    \o (IF node.graph = <<>> THEN <<>> ELSE _parse_graph_nodes(node.graph[1], node.id))

\* the loop over transitions (2451-2461): an edge that leaves the meta note
\* is deleted, every other edge is kept
ProcessTransitions(l, transitions) ==
  IF l.error # None THEN l
  ELSE [l EXCEPT !.transitions =
          SelectSeq(transitions, LAMBDA transition : transition.source # l.meta.id)]

\* self.elements.state_machines[graph.id] = CGMLStateMachine(...)
CGMLStateMachine(l) ==
  [state_machines |-> IF l.error # None THEN <<>> ELSE <<l>>, error |-> l.error]

create_empty_elements == [state_machines |-> <<>>, error |-> None]

ParseInit ==
  /\ graph \in Graphs
  /\ elements = create_empty_elements
  /\ arguments = <<>> /\ args_str = <<>> /\ args = <<>>
  /\ NoHost /\ NoBuilder
  /\ caller = "CGMLParser" /\ result = None /\ crash = FALSE
  /\ m = "toggle" /\ signals = <<>> /\ isInfinite = FALSE
  /\ events = <<>> /\ called_events = <<>>
  /\ current_event_idx = 0 /\ insert_event_idx = 0
  /\ current_ = None /\ effective_ = None /\ target_ = None
  /\ components = <<>>
  /\ raised = FALSE
  /\ pc = "parse" /\ event = None /\ timeout = FALSE
  /\ elapsed = 0 /\ hostBreaks = 0
  /\ trace = <<>> /\ actionLog = <<>> /\ dispatched = <<>> /\ got = <<>>
  /\ hist = <<>>

\* elements = CGMLParser().parse_cgml(graphml)
parse_cgml ==
  /\ pc = "parse"
  /\ elements' = CGMLStateMachine(
                   ProcessTransitions(
                     ProcessNodes(Locals, _parse_graph_nodes(graph, None), 1),
                     _parse_graph_edges(graph)))
  /\ pc' = "parsed"
  /\ UNCHANGED <<graph, arguments, args_str, args, hostVars, builderVars, caller, result, crash, m, signals, isInfinite,
                 events, called_events, current_event_idx, insert_event_idx,
                 current_, effective_, target_, components, raised, event, timeout,
                 elapsed, hostBreaks, trace, actionLog, dispatched, got, hist>>

ParseNext == parse_cgml

ParseSpec == ParseInit /\ [][ParseNext]_vars

(***************************************************************************)
(* StateMachine.__parse_args (simulator.py 2822-2890).  A text is the      *)
(* sequence of its characters; a parsed value is an int, a str or a list.  *)
(***************************************************************************)

MaxArgs == 2
MaxItems == 2

IntValue(text) == [kind |-> "int", text |-> text, items |-> <<>>]
StrValue(text) == [kind |-> "str", text |-> text, items |-> <<>>]
ListValue(items) == [kind |-> "list", text |-> <<>>, items |-> items]

Digits == {"1", "2", "3", "4", "5"}

\* int(val) succeeds: val is a numeral
IsInt(val) == val # <<>> /\ \A i \in 1..Len(val) : val[i] \in Digits

\* str.strip()
strip(s) ==
  IF \A i \in 1..Len(s) : s[i] = " " THEN <<>>
  ELSE SubSeq(s, CHOOSE i \in 1..Len(s) : s[i] # " " /\ \A j \in 1..(i - 1) : s[j] = " ",
                 CHOOSE i \in 1..Len(s) : s[i] # " " /\ \A j \in (i + 1)..Len(s) : s[j] = " ")

RECURSIVE split(_, _, _)
\* s.split(','): cur is the piece under way, from character i on
split(s, i, cur) ==
  IF i > Len(s) THEN <<cur>>
  ELSE IF s[i] = "," THEN <<cur>> \o split(s, i + 1, <<>>)
  ELSE split(s, i + 1, Append(cur, s[i]))

RECURSIVE parse_set(_), parse_value(_), parse_content(_)
\* parse_set (2838-2844): the content between the braces, split at every
\* comma
parse_set(set_str) == parse_content(strip(SubSeq(set_str, 2, Len(set_str) - 1)))

parse_content(content) ==
  IF content = <<>> THEN ListValue(<<>>)
  ELSE ListValue([i \in 1..Len(split(content, 1, <<>>)) |->
               parse_value(strip(split(content, 1, <<>>)[i]))])

\* parse_value (2846-2858), on the stripped val
parse_value(val) ==
  IF val # <<>> /\ val[1] = "{" /\ val[Len(val)] = "}" THEN parse_set(val)
  ELSE IF IsInt(val) THEN IntValue(val)
  ELSE StrValue(val)

RECURSIVE split_args(_, _, _, _)
\* split_args (2860-2882): the loop over the characters from i on, with the
\* argument under way and the nesting level
split_args(s, i, current, nesting_level) ==
  IF i > Len(s) THEN (IF current # <<>> THEN <<strip(current)>> ELSE <<>>)
  ELSE IF s[i] = "{" THEN split_args(s, i + 1, Append(current, s[i]), nesting_level + 1)
  ELSE IF s[i] = "}" THEN split_args(s, i + 1, Append(current, s[i]), nesting_level - 1)
  ELSE IF s[i] = "," /\ nesting_level = 0
    THEN <<strip(current)>> \o split_args(s, i + 1, <<>>, nesting_level)
  ELSE split_args(s, i + 1, Append(current, s[i]), nesting_level)

\* lines 2884-2890
__parse_args(text) ==
  IF text = <<>> THEN <<>>
  ELSE [i \in 1..Len(split_args(text, 1, <<>>, 0)) |->
          parse_value(strip(split_args(text, 1, <<>>, 0)[i]))]

RECURSIVE Join(_, _)
Join(texts, sep) ==
  IF texts = <<>> THEN <<>>
  ELSE IF Len(texts) = 1 THEN texts[1]
  ELSE texts[1] \o sep \o Join(Tail(texts), sep)

RECURSIVE WriteValue(_)
\* the text of an argument: a numeral, or the brace group of a list
WriteValue(v) ==
  IF v.kind = "list"
    THEN <<"{">> \o Join([i \in 1..Len(v.items) |-> WriteValue(v.items[i])], <<",">>) \o <<"}">>
    ELSE v.text

\* the text of an argument list, as in "{{1,2},{3,4}}, 5"
WriteArgs(vs) == Join([i \in 1..Len(vs) |-> WriteValue(vs[i])], <<",", " ">>)

Numbers == {IntValue(<<"1">>)}

\* brace groups of numbers, and brace groups of numbers and such groups
Groups == {ListValue(items) : items \in BoundedSeq(Numbers, MaxItems)}

NestedGroups == {ListValue(items) : items \in BoundedSeq(Numbers \cup Groups, MaxItems)}

ArgLists == BoundedSeq(Numbers \cup NestedGroups, MaxArgs)

ArgsInit ==
  /\ arguments \in ArgLists
  /\ args_str = WriteArgs(arguments)
  /\ args = <<>>
  /\ graph = <<>> /\ elements = <<>>
  /\ NoHost /\ NoBuilder
  /\ caller = "StateMachine" /\ result = None /\ crash = FALSE
  /\ m = "toggle" /\ signals = <<>> /\ isInfinite = FALSE
  /\ events = <<>> /\ called_events = <<>>
  /\ current_event_idx = 0 /\ insert_event_idx = 0
  /\ current_ = None /\ effective_ = None /\ target_ = None
  /\ components = <<>>
  /\ raised = FALSE
  /\ pc = "args" /\ event = None /\ timeout = FALSE
  /\ elapsed = 0 /\ hostBreaks = 0
  /\ trace = <<>> /\ actionLog = <<>> /\ dispatched = <<>> /\ got = <<>>
  /\ hist = <<>>

\* args = self.__parse_args(args_str) if args_str else [] (line 2910)
__parse_action ==
  /\ pc = "args"
  /\ args' = __parse_args(strip(args_str))
  /\ pc' = "parsedArgs"
  /\ UNCHANGED <<graph, elements, arguments, args_str, hostVars, builderVars, caller, result,
                 crash, m, signals, isInfinite, events, called_events,
                 current_event_idx, insert_event_idx, current_, effective_, target_,
                 components, raised, event, timeout, elapsed, hostBreaks, trace,
                 actionLog, dispatched, got, hist>>

ArgsNext == __parse_action

ArgsSpec == ArgsInit /\ [][ArgsNext]_vars

(***************************************************************************)
(* MainApp (main_window.py): load_file, load_visualizer and run_simulation *)
(* with the registry of visualizers (visualizers/__init__.py 46-94).  An   *)
(* attribute that is None or an object is a sequence of length 0 or 1.     *)
(***************************************************************************)

MaxLoads == 3
MaxRuns == 2

PLATFORM_VISUALIZERS ==
  <<[id |-> "junior-gardener", module |-> "JuniorGardener"],
    [id |-> "junior-reader", module |-> "JuniorReader"]>>

\* the platforms a document may name in its meta note
Platforms ==
  {"junior-reader", "Junior-Reader", "junior_reader", "junior-gardener", "BearlogaDefend"}

\* str.lower() on the platforms
lower(platform) ==
  CASE platform = "Junior-Reader" -> "junior-reader"
    [] platform = "BearlogaDefend" -> "bearlogadefend"
    [] OTHER -> platform

\* platform.lower().replace('-', '_')
normalized(platform) ==
  CASE lower(platform) = "junior-reader" -> "junior_reader"
    [] lower(platform) = "junior-gardener" -> "junior_gardener"
    [] OTHER -> lower(platform)

\* get_visualizer_class: the exact key, then the normalized one; <<>> is None
get_visualizer_class(platform) ==
  IF platform \in Ids(PLATFORM_VISUALIZERS)
    THEN <<Get(PLATFORM_VISUALIZERS, platform).module \o "Visualizer">>
  ELSE IF \E i \in 1..Len(PLATFORM_VISUALIZERS) :
            normalized(PLATFORM_VISUALIZERS[i].id) = normalized(platform)
    THEN <<PLATFORM_VISUALIZERS[
             CHOOSE i \in 1..Len(PLATFORM_VISUALIZERS) :
               /\ normalized(PLATFORM_VISUALIZERS[i].id) = normalized(platform)
               /\ \A j \in 1..(i - 1) :
                    normalized(PLATFORM_VISUALIZERS[j].id) # normalized(platform)
           ].module \o "Visualizer">>
  ELSE <<>>

\* what a file holds: it cannot be read or parsed, it has no state machine,
\* or it has one whose meta note names a platform
Contents == {"unreadable", "nomachines"} \cup Platforms

Files == {[name |-> n, content |-> c] : n \in {"a.graphml", "b.graphml"}, c \in Contents}

\* the dialog was closed without a choice
NoFile == [name |-> "", content |-> "unreadable"]

\* MainApp.__init__ and create_widgets
MainApp ==
  [current_visualizer |-> <<>>, state_machine_data |-> <<>>,
   run_btn |-> "disabled", settings_btn |-> "disabled"]

enable_buttons(a) == [a EXCEPT !.run_btn = "normal", !.settings_btn = "normal"]

disable_buttons(a) == [a EXCEPT !.run_btn = "disabled", !.settings_btn = "disabled"]

\* self.state_machine_data = {...} (lines 86-94): the machine is the one
\* parsed from the file
state_machine_data(file) ==
  [platform |-> file.content, cgml_state_machine |-> file.name]

\* BaseVisualizer.__init__ keeps the dict it is given
BaseVisualizer(class, data) == [class |-> class, state_machine_data |-> data]

\* load_visualizer (143-180); constructs tells whether the visualizer's
\* constructor returns or raises
load_visualizer(a, platform, constructs) ==
  IF get_visualizer_class(platform) # <<>>
    THEN IF constructs
           THEN [a EXCEPT !.current_visualizer =
                   <<BaseVisualizer(get_visualizer_class(platform)[1],
                                    a.state_machine_data[1])>>]
           ELSE disable_buttons(a)
    ELSE disable_buttons(a)

\* lines 101-104
current_platform(a) ==
  IF a.current_visualizer # <<>>
    THEN <<a.current_visualizer[1].state_machine_data.platform>>
    ELSE <<>>

\* the platform of the file equals that of the visualizer at hand (line 105)
SamePlatform(a, platform) ==
  /\ current_platform(a) # <<>>
  /\ lower(current_platform(a)[1]) = lower(platform)

\* load_file (68-141) on the file the dialog returned
load_file(a, file, constructs) ==
  IF file.name = "" THEN a
  ELSE IF file.content \in {"unreadable", "nomachines"} THEN disable_buttons(a)
  ELSE IF SamePlatform(a, file.content)
    THEN enable_buttons([a EXCEPT !.state_machine_data = <<state_machine_data(file)>>])
  ELSE enable_buttons(
         load_visualizer([a EXCEPT !.state_machine_data = <<state_machine_data(file)>>],
                         file.content, constructs))

\* how a load_file call ended
Outcome(a, file, constructs) ==
  CASE file.content = "unreadable" -> "error"
    [] file.content = "nomachines" -> "empty"
    [] SamePlatform(a, file.content) -> "kept"
    [] get_visualizer_class(file.content) = <<>> -> "novisualizer"
    [] ~constructs -> "failed"
    [] OTHER -> "created"

HostInit ==
  /\ app = MainApp
  /\ last = <<>> /\ ran = <<>> /\ runs = 0 /\ loads = 0 /\ earlier = <<>>
  /\ graph = <<>> /\ elements = <<>> /\ arguments = <<>> /\ args_str = <<>> /\ args = <<>>
  /\ NoBuilder
  /\ caller = "MainApp" /\ result = None /\ crash = FALSE
  /\ m = "toggle" /\ signals = <<>> /\ isInfinite = FALSE
  /\ events = <<>> /\ called_events = <<>>
  /\ current_event_idx = 0 /\ insert_event_idx = 0
  /\ current_ = None /\ effective_ = None /\ target_ = None
  /\ components = <<>>
  /\ raised = FALSE
  /\ pc = "host" /\ event = None /\ timeout = FALSE
  /\ elapsed = 0 /\ hostBreaks = 0
  /\ trace = <<>> /\ actionLog = <<>> /\ dispatched = <<>> /\ got = <<>>
  /\ hist = <<>>

HostUnchanged ==
  UNCHANGED <<graph, elements, arguments, args_str, args, builderVars, caller, result,
              crash, m, signals, isInfinite, events, called_events, current_event_idx,
              insert_event_idx, current_, effective_, target_, components, raised,
              pc, event, timeout, elapsed, hostBreaks, trace, actionLog, dispatched,
              got, hist>>

\* the user presses "load file"
LoadFile ==
  /\ pc = "host"
  /\ loads < MaxLoads
  /\ \E file \in Files \cup {NoFile}, constructs \in BOOLEAN :
       /\ app' = load_file(app, file, constructs)
       /\ last' = IF file.name = "" THEN last
                  ELSE <<[file |-> file, outcome |-> Outcome(app, file, constructs)]>>
  /\ loads' = loads + 1
  /\ UNCHANGED <<ran, runs, earlier>>
  /\ HostUnchanged

\* the user presses "run": run_simulation (182-212); the visualizer builds
\* the StateMachine from its own state_machine_data['cgml_state_machine']
RunSimulation ==
  /\ pc = "host"
  /\ app.run_btn = "normal"
  /\ runs < MaxRuns
  /\ ran' = IF app.current_visualizer = <<>> THEN ran
            ELSE <<app.current_visualizer[1].state_machine_data.cgml_state_machine>>
  /\ runs' = runs + 1
  /\ UNCHANGED <<app, last, loads, earlier>>
  /\ HostUnchanged

HostNext == LoadFile \/ RunSimulation

HostSpec == HostInit /\ [][HostNext]_vars

(***************************************************************************)
(* The devices on their own: a device as its constructor and               *)
(* get_sm_options leave it, and any sequence of calls of its methods.      *)
(***************************************************************************)
MaxCalls == 5     \* method calls made on one device

\* a device under the name c, with the EventLoop as the class defines it
DeviceInit(c, device) ==
  /\ NoParser /\ NoBuilder
  /\ caller = "SchemeComponent" /\ result = None /\ crash = FALSE
  /\ m = "toggle" /\ signals = <<>> /\ isInfinite = FALSE
  /\ events = <<>> /\ called_events = <<>>
  /\ current_event_idx = 0 /\ insert_event_idx = 0
  /\ current_ = None /\ effective_ = None /\ target_ = None
  /\ components = (c :> device)
  /\ raised = FALSE
  /\ pc = "device" /\ event = None /\ timeout = FALSE
  /\ elapsed = 0 /\ hostBreaks = 0
  /\ trace = <<>> /\ actionLog = <<>> /\ dispatched = <<>> /\ got = <<>>
  /\ hist = <<>>

\* the state after a method call, with the calls to remember; an exception
\* that left the call is kept in raised until the next call
DeviceCommit(w, calls) ==
  /\ events' = w.events
  /\ called_events' = w.called_events
  /\ current_event_idx' = w.current_event_idx
  /\ insert_event_idx' = w.insert_event_idx
  /\ components' = w.components
  /\ raised' = w.raised
  /\ crash' = w.crash
  /\ actionLog' = w.actionLog
  /\ hist' = calls
  /\ UNCHANGED <<parserVars, builderVars, caller, result, m, signals, isInfinite,
                 current_, effective_, target_, pc, event, timeout, elapsed,
                 hostBreaks, trace, dispatched, got>>

\* the world a method is called in; actionLog takes the calls the method
\* makes on the object the device drives
Calling == [World EXCEPT !.raised = FALSE, !.crash = FALSE, !.actionLog = <<>>]

\* the name of the one device
Device == CHOOSE c \in DOMAIN components : TRUE

\* Reader.__init__ and get_sm_options({'message': message}); a message is
\* the sequence of its characters
Reader(name, message) ==
  [type |-> "Reader", name |-> name, message |-> message, current_char |-> "",
   index |-> 0]

\* a slip: the index moves on at the end of the line as well
read_AlwaysAdvances(w, c) ==
  IF w.components[c].index < Len(w.components[c].message)
    THEN add_event([w EXCEPT !.components[c].current_char =
                               w.components[c].message[w.components[c].index + 1],
                             !.components[c].index = @ + 1],
                   w.components[c].name \o ".char_accepted", FALSE)
    ELSE add_event([w EXCEPT !.components[c].index = @ + 1],
                   w.components[c].name \o ".line_finished", FALSE)

\* Reader.read
read(w, c) ==
  IF w.components[c].index < Len(w.components[c].message)
    THEN add_event([w EXCEPT !.components[c].current_char =
                               w.components[c].message[w.components[c].index + 1],
                             !.components[c].index = @ + 1],
                   w.components[c].name \o ".char_accepted", FALSE)
    ELSE add_event(w, w.components[c].name \o ".line_finished", FALSE)

MaxMessage == 3   \* longest message of a Reader

Characters == {"a", "b"}

ReaderInit ==
  \E name \in {"reader", "input"}, message \in BoundedSeq(Characters, MaxMessage) :
    DeviceInit(name, Reader(name, message))

\* reader.read()
Read ==
  /\ pc = "device"
  /\ Len(hist) < MaxCalls
  /\ DeviceCommit(read(Calling, Device), Append(hist, [op |-> "read"]))

\* the pending events are handed out meanwhile
ReaderGet ==
  /\ pc = "device"
  /\ current_event_idx < Len(events)
  /\ LET w == get_event(World)
     IN /\ events' = w.events
        /\ called_events' = w.called_events
        /\ current_event_idx' = w.current_event_idx
        /\ insert_event_idx' = w.insert_event_idx
  /\ UNCHANGED <<parserVars, builderVars, caller, result, m, signals, isInfinite,
                 current_, effective_, target_, components, raised, crash, pc, event,
                 timeout, elapsed, hostBreaks, trace, actionLog, dispatched, got, hist>>

ReaderNext == Read \/ ReaderGet

ReaderSpec == ReaderInit /\ [][ReaderNext]_vars

\* CyberBear.__init__: self.matrix = [[0 for _ in range(5)] for _ in range(7)]
CyberBear == [matrix |-> [row \in 0..6 |-> [col \in 0..4 |-> 0]]]

\* Matrix.__init__ and get_sm_options({'CyberBear': bear})
Matrix(name, bear) == [type |-> "Matrix", name |-> name, bear |-> bear]

\* the device calls bear.method(row, col, ...)
BearCall(w, method, row, col) ==
  [w EXCEPT !.actionLog = Append(@, [component |-> "CyberBear", method |-> method,
                                     row |-> row, col |-> col])]

\* CyberBear.set_matrix_pixel(row, col, value)
set_matrix_pixel(w, c, row, col, value) ==
  IF 0 <= row /\ row < 7 /\ 0 <= col /\ col < 5
    THEN [BearCall(w, "set_matrix_pixel", row, col)
            EXCEPT !.components[c].bear.matrix[row][col] = value]
    ELSE BearCall(w, "set_matrix_pixel", row, col)

\* CyberBear.get_matrix_pixel(row, col) raises outside the matrix
get_matrix_pixel_raises(row, col) == ~(0 <= row /\ row < 7 /\ 0 <= col /\ col < 5)

\* Matrix.setPixel(row, col, brightness)
setPixel(w, c, row, col, brightness) ==
  IF 0 <= row /\ row < 5 /\ 0 <= col /\ col < 7
    THEN set_matrix_pixel(w, c, row, col, brightness)
    ELSE [w EXCEPT !.raised = TRUE]

RECURSIVE PatternBright(_, _, _, _, _)
\* the body of the loops of changePatternBright from the i-th pair on:
\* for row in range(5): for col in range(7)
PatternBright(w, c, mode, brightness, i) ==
  IF i >= 5 * 7 THEN w
  ELSE IF get_matrix_pixel_raises(i \div 7, i % 7)
    THEN [BearCall(w, "get_matrix_pixel", i \div 7, i % 7) EXCEPT !.raised = TRUE]
  ELSE IF \/ mode = "ALL_LEDS"
          \/ mode = "ON_LEDS" /\ w.components[c].bear.matrix[i \div 7][i % 7] > 0
          \/ mode = "OFF_LEDS" /\ w.components[c].bear.matrix[i \div 7][i % 7] = 0
    THEN PatternBright(set_matrix_pixel(BearCall(w, "get_matrix_pixel", i \div 7, i % 7),
                                        c, i \div 7, i % 7, brightness),
                       c, mode, brightness, i + 1)
  ELSE PatternBright(BearCall(w, "get_matrix_pixel", i \div 7, i % 7),
                     c, mode, brightness, i + 1)

\* Matrix.changePatternBright(mode, brightness)
changePatternBright(w, c, mode, brightness) == PatternBright(w, c, mode, brightness, 0)

MaxMatrixCalls == 2   \* method calls made on one Matrix

Rows == {-1, 0, 4, 5, 6, 7}

Cols == {-1, 0, 4, 5, 6, 7}

Brightness == {0, 100}

MatrixInit == DeviceInit("matrix", Matrix("matrix", CyberBear))

\* matrix.setPixel(row, col, brightness)
SetPixel ==
  /\ pc = "device"
  /\ Len(hist) < MaxMatrixCalls
  /\ \E row \in Rows, col \in Cols, brightness \in Brightness :
       DeviceCommit(setPixel(Calling, Device, row, col, brightness),
                    Append(hist, [op |-> "setPixel", row |-> row, col |-> col,
                                  brightness |-> brightness]))

\* matrix.changePatternBright(mode, brightness)
ChangePatternBright ==
  /\ pc = "device"
  /\ Len(hist) < MaxMatrixCalls
  /\ \E mode \in {"ALL_LEDS", "ON_LEDS", "OFF_LEDS"}, brightness \in Brightness :
       DeviceCommit(changePatternBright(Calling, Device, mode, brightness),
                    Append(hist, [op |-> "changePatternBright", row |-> 0, col |-> 0,
                                  brightness |-> brightness]))

MatrixNext == SetPixel \/ ChangePatternBright

MatrixSpec == MatrixInit /\ [][MatrixNext]_vars

\* the bounds of the range CalcInt checks its results against
INT_MAX == 2147483647

INT_MIN == -2147483647 - 1

\* CalcInt.__init__.  A Python int n is held as value + beyond * 2^32 with
\* value within INT_MIN..INT_MAX, so that a result outside this range can
\* be written down: 2^31 is value = INT_MIN with beyond = 1.
CalcInt(name) ==
  [type |-> "CalcInt", name |-> name, value |-> 0, beyond |-> 0, _overflow |-> FALSE]

\* INT_MIN <= v + x <= INT_MAX, for v and x within the range
SumFits(v, x) == IF x >= 0 THEN v <= INT_MAX - x ELSE v >= INT_MIN - x

\* INT_MIN <= v - x <= INT_MAX, for v and x within the range
DiffFits(v, x) == IF x >= 0 THEN v >= INT_MIN + x ELSE v <= INT_MAX + x

\* floor(2^31 / p) for p >= 2
HalfRange(p) == (INT_MAX \div p) + (IF INT_MAX % p = p - 1 THEN 1 ELSE 0)

\* INT_MIN <= v * x <= INT_MAX, for v and x within the range
ProductFits(v, x) ==
  IF v = 0 \/ x = 0 \/ x = 1 THEN TRUE
  ELSE IF x = -1 THEN v # INT_MIN
  ELSE IF x = INT_MIN THEN v = 1
  ELSE IF x > 0 THEN -HalfRange(x) <= v /\ v <= INT_MAX \div x
  ELSE -(INT_MAX \div (-x)) <= v /\ v <= HalfRange(-x)

\* INT_MIN <= v << n <= INT_MAX, for n >= 0
ShiftFits(v, n) ==
  IF n <= 30 THEN ProductFits(v, 2^n) ELSE v = 0 \/ (v = -1 /\ n = 31)

\* v << n when it fits
ShiftLeft(v, n) == IF n <= 30 THEN v * 2^n ELSE IF v = 0 THEN 0 ELSE INT_MIN

\* v >> n, for n >= 0
ShiftRight(v, n) == IF n <= 30 THEN v \div 2^n ELSE IF v < 0 THEN -1 ELSE 0

\* v // x for x other than 0 and -1: the floor of the quotient
FloorDiv(v, x) ==
  IF x > 0 THEN v \div x
  ELSE IF x = INT_MIN THEN (IF v = INT_MIN THEN 1 ELSE IF v > 0 THEN -1 ELSE 0)
  ELSE IF v % (-x) = 0 THEN -(v \div (-x))
  ELSE -(v \div (-x)) - 1

\* v % x for x other than 0: the remainder has the sign of x
Modulo(v, x) ==
  IF x > 0 THEN v % x
  ELSE IF x = INT_MIN THEN (IF v = INT_MIN THEN 0 ELSE IF v > 0 THEN v + INT_MIN ELSE v)
  ELSE -(((-x) - (v % (-x))) % (-x))

\* one bit of a & b, a | b, a ^ b
Bit(op, a, b) ==
  CASE op = "bitAnd" -> a /\ b
    [] op = "bitOr" -> a \/ b
    [] op = "bitXor" -> a # b

RECURSIVE Bitwise(_, _, _)
\* a & b, a | b, a ^ b on Python ints: two's complement with the sign bit
\* repeated to the left
Bitwise(op, a, b) ==
  IF a \in {0, -1} /\ b \in {0, -1}
    THEN (IF Bit(op, a = -1, b = -1) THEN -1 ELSE 0)
    ELSE 2 * Bitwise(op, a \div 2, b \div 2)
           + (IF Bit(op, a % 2 = 1, b % 2 = 1) THEN 1 ELSE 0)

\* EventLoop.add_event(f'{self.name}.isOverflow')
Overflow(w, c) == add_event(w, w.components[c].name \o ".isOverflow", FALSE)

\* self.value = v
Store(w, c, v) == [w EXCEPT !.components[c].value = v]

\* CalcInt.method(x), for value and x within INT_MIN..INT_MAX
CalcInt_call(w, c, method, x) ==
  CASE method = "set" -> Store(w, c, x)
    [] method = "add" ->
         IF SumFits(w.components[c].value, x)
           THEN Store(w, c, w.components[c].value + x) ELSE Overflow(w, c)
    [] method = "sub" ->
         IF DiffFits(w.components[c].value, x)
           THEN Store(w, c, w.components[c].value - x) ELSE Overflow(w, c)
    [] method = "mul" ->
         IF ProductFits(w.components[c].value, x)
           THEN Store(w, c, w.components[c].value * x) ELSE Overflow(w, c)
    [] method = "div" ->
         IF x = 0 THEN add_event(w, w.components[c].name \o ".isZeroDivision", FALSE)
         ELSE IF x = -1 /\ w.components[c].value = INT_MIN
           THEN [w EXCEPT !.components[c].beyond = 1]
         ELSE IF x = -1 THEN Store(w, c, -w.components[c].value)
         ELSE Store(w, c, FloorDiv(w.components[c].value, x))
    [] method = "mod" ->
         IF x = 0 THEN add_event(w, w.components[c].name \o ".isZeroDivision", FALSE)
         ELSE Store(w, c, Modulo(w.components[c].value, x))
    [] method = "neg" ->
         IF w.components[c].value # INT_MIN
           THEN Store(w, c, -w.components[c].value)
           ELSE [w EXCEPT !.components[c]._overflow = TRUE]
    [] method = "abs" ->
         IF w.components[c].value # INT_MIN
           THEN Store(w, c, IF w.components[c].value < 0
                              THEN -w.components[c].value ELSE w.components[c].value)
           ELSE [w EXCEPT !.components[c]._overflow = TRUE]
    [] method \in {"bitAnd", "bitOr", "bitXor"} ->
         Store(w, c, Bitwise(method, w.components[c].value, x))
    [] method = "bitNot" ->
         Store(w, c, IF w.components[c].value >= 0
                       THEN -w.components[c].value - 1
                       ELSE -(w.components[c].value + 1))
    [] method = "shiftLeft" ->
         IF x < 0 THEN [w EXCEPT !.raised = TRUE]
         ELSE IF ShiftFits(w.components[c].value, x)
           THEN Store(w, c, ShiftLeft(w.components[c].value, x)) ELSE Overflow(w, c)
    [] method = "shiftRight" ->
         IF x < 0 THEN [w EXCEPT !.raised = TRUE]
         ELSE Store(w, c, ShiftRight(w.components[c].value, x))

MaxCalcCalls == 3   \* method calls made on one CalcInt

Operands == {INT_MIN, -1, 0, 1, 3, INT_MAX}

Shifts == {-1, 0, 1, 31}

BinaryMethods ==
  {"set", "add", "sub", "mul", "div", "mod", "bitAnd", "bitOr", "bitXor"}

CalcInit == DeviceInit("calc", CalcInt("calc"))

\* calc.method(x) with an operand; the model follows the device while its
\* value is within INT_MIN..INT_MAX
CalcCall ==
  /\ pc = "device"
  /\ Len(hist) < MaxCalcCalls
  /\ components[Device].beyond = 0
  /\ \E method \in BinaryMethods, x \in Operands :
       DeviceCommit(CalcInt_call(Calling, Device, method, x),
                    Append(hist, [op |-> method, x |-> x]))

\* calc.shiftLeft(n), calc.shiftRight(n)
CalcShift ==
  /\ pc = "device"
  /\ Len(hist) < MaxCalcCalls
  /\ components[Device].beyond = 0
  /\ \E method \in {"shiftLeft", "shiftRight"}, n \in Shifts :
       DeviceCommit(CalcInt_call(Calling, Device, method, n),
                    Append(hist, [op |-> method, x |-> n]))

\* calc.neg(), calc.abs(), calc.bitNot()
CalcUnary ==
  /\ pc = "device"
  /\ Len(hist) < MaxCalcCalls
  /\ components[Device].beyond = 0
  /\ \E method \in {"neg", "abs", "bitNot"} :
       DeviceCommit(CalcInt_call(Calling, Device, method, 0),
                    Append(hist, [op |-> method, x |-> 0]))

CalcNext == CalcCall \/ CalcShift \/ CalcUnary

CalcSpec == CalcInit /\ [][CalcNext]_vars

\* the fields of rows rows and cols columns, each cell empty or a wall
Fields(rows, cols) == [0..(rows - 1) -> [0..(cols - 1) -> {0, WALL}]]

\* Mover.__init__ and get_sm_options({'gardener': gardener})
Mover(name, gardener) ==
  [type |-> "Mover", value |-> 0, started |-> FALSE, gardener |-> gardener]

\* JuniorGardenerVisualizer.run_state_machine: Gardener(width, height), the
\* orientation chosen in the settings, set_field(editable_field)
GardenerInit ==
  \E rows \in 1..MaxField, cols \in 1..MaxField :
    \E field \in Fields(rows, cols), orientation \in {SOUTH, NORTH, WEST, EAST} :
      DeviceInit("mover",
                 Mover("mover", set_field([Gardener(cols, rows)
                                             EXCEPT !.orientation = orientation],
                                          field, rows, cols)))

\* mover.move_forward(), mover.move_backward(); of the calls made, the
\* latest is remembered
Move ==
  /\ pc = "device"
  /\ \E method \in {"move_forward", "move_backward"} :
       DeviceCommit(Call(Calling, "Mover", Line(Device, method, 0)), <<[op |-> method]>>)

\* mover.turn_left(), mover.turn_right()
Turn ==
  /\ pc = "device"
  /\ \E method \in {"turn_left", "turn_right"} :
       DeviceCommit(Call(Calling, "Mover", Line(Device, method, 0)), <<[op |-> method]>>)

GardenerNext == Move \/ Turn

GardenerSpec == GardenerInit /\ [][GardenerNext]_vars

(***************************************************************************)
(* Properties.                                                             *)
(***************************************************************************)

\* C1: if get_event has just returned E while P and Q are queued behind
\* it, then after add_event(X) and add_event(Y) the next four get_event
\* calls return X, Y, P, Q.
C1_PostedBeforeQueued ==
  \A i \in 1..Len(hist) :
    ( /\ i + 2 = Len(hist)
      /\ hist[i].op = "get" /\ hist[i].ev # None /\ Len(hist[i].pending) >= 2
      /\ hist[i + 1].op = "add" /\ hist[i + 2].op = "add" )
    => NextGets(World, 4) =
         <<hist[i + 1].ev, hist[i + 2].ev, hist[i].pending[1], hist[i].pending[2]>>

\* C2: every event the driver takes from the queue is dispatched, or is
\* the break token that ends the run; none is discarded.
C2_NoDiscard ==
  /\ pc \in {"loop", "sleep"} => got = dispatched
  /\ pc = "done" => got \in {dispatched, Append(dispatched, break)}

UserDispatched == SelectSeq(dispatched, LAMBDA e : e \notin default_signals)

\* C3: once a final state is entered the run leaves its loop: no further
\* user event is dispatched and the driver does not go idle.
C3_FinalEndsRun ==
  [][Kind(SM, current_) = "final"
       => (UserDispatched' = UserDispatched /\ pc' # "sleep")]_vars

\* C4: in infinite mode, when the driver takes the break token posted by
\* the host from the queue, it reads it as break and the run returns.
C4_HostBreakStops ==
  ( /\ hostBreaks > 0
    /\ Machine(m).finals = <<>>
    /\ \E i \in 1..Len(got) : got[i] = break )
  => (pc = "done" \/ (pc = "check" /\ event = break))

\* the events posted with is_called = true: the Impulse methods invoked
CalledPosts ==
  SeqMap(LAMBDA a : a.method,
         SelectSeq(actionLog, LAMBDA a : components[a.component].type = "Impulse"))

\* C5: called_events is the sequence of the events posted with
\* is_called = true, in posting order; nothing else appears in it.
C5_CalledEvents == pc # "api" => called_events = CalledPosts

C5_Witness ==
  /\ pc = "done"
  /\ Len(called_events) >= 2
  /\ called_events[1] # called_events[2]
  /\ Len(events) > Len(called_events) + 2

Holds(env, c) == intepreter_condition([components |-> env], c).val

\* the signal the selection rule names: the first whose guard holds, else
\* the else signal, else none (0)
Selected(sigs, env) ==
  LET sat == {i \in 1..Len(sigs) : sigs[i].condition.op # "else" /\ Holds(env, sigs[i].condition)}
      els == {i \in 1..Len(sigs) : sigs[i].condition.op = "else"}
  IN IF sat # {} THEN CHOOSE i \in sat : \A j \in sat : i <= j
     ELSE IF els # {} THEN CHOOSE i \in els : \A j \in els : i >= j
     ELSE 0

\* the calls the execution of an action block makes: one for each line
\* whose component the machine has, in line order
Invoked(action, env) ==
  SeqMap(LAMBDA l : [component |-> l.component, method |-> l.method],
         SelectSeq(action, LAMBDA l : l.component \in DOMAIN env))

StateSignals(h, signal_name) ==
  IF signal_name \in DOMAIN Get(SM.states, h).signals
    THEN Get(SM.states, h).signals[signal_name] ELSE <<>>

\* C6: a composite state tries the signals registered for the event in
\* registration order: exactly the first whose guard holds runs and its
\* status is returned; failing that, exactly the else signal; failing that,
\* no action runs and the event is delegated to the parent (or to top).
\* An invocation that an exception leaves returns no status and is not
\* constrained.
C6_StateSignalOrder ==
  \A k \in 1..Len(trace) :
    LET r == trace[k]
    IN ( /\ Kind(SM, r.h) = "state"
         /\ r.signal # noconditionTransition
         /\ StateSignals(r.h, r.signal) # <<>>
         /\ ~r.raised )
       => LET sigs == StateSignals(r.h, r.signal)
              f == Selected(sigs, r.env)
          IN /\ r.fired = f
             /\ f # 0 => /\ r.acts = Invoked(sigs[f].action, r.env)
                         /\ r.ret = sigs[f].status
                         /\ sigs[f].status = Q_RET_TRAN => r.target = sigs[f].target
             /\ f = 0 => /\ r.acts = <<>>
                         /\ r.ret = Q_RET_SUPER
                         /\ r.effective = SuperOf(Get(SM.states, r.h).parent)

\* a later guarded signal fired although an else signal stands before it
C6_Witness ==
  \E k \in 1..Len(trace) :
    /\ Kind(SM, trace[k].h) = "state"
    /\ trace[k].fired = 3
    /\ StateSignals(trace[k].h, trace[k].signal)[2].condition.op = "else"
    /\ trace[k].acts # <<>>

\* C7: on a visit of a choice vertex at most one branch has its action
\* executed and its target taken; the else branch fires iff it exists and
\* no guarded branch has a satisfied guard.
C7_ChoiceOneBranch ==
  \A k \in 1..Len(trace) :
    LET r == trace[k]
    IN (Kind(SM, r.h) = "choice" /\ r.signal = noconditionTransition)
       => LET sigs == Get(SM.choice_states, r.h).conditions
              sat == {i \in 1..Len(sigs) : sigs[i].condition.op # "else"
                                          /\ Holds(r.env, sigs[i].condition)}
              els == {i \in 1..Len(sigs) : sigs[i].condition.op = "else"}
          IN /\ r.fired \in 0..Len(sigs)
             /\ r.acts = (IF r.fired = 0 THEN <<>> ELSE Invoked(sigs[r.fired].action, r.env))
             /\ (r.ret = Q_RET_TRAN) = (r.fired # 0)
             /\ r.fired # 0 => r.target = sigs[r.fired].target
             /\ (k = 1 /\ r.fired # 0) => current_ = sigs[r.fired].target
             /\ (r.fired \in els) = (els # {} /\ sat = {})

\* the choice C took its guarded branch although it has an else branch
C7_Witness ==
  /\ Len(trace) > 0
  /\ Kind(SM, trace[1].h) = "choice"
  /\ trace[1].signal = noconditionTransition
  /\ trace[1].fired = 1
  /\ Len(Get(SM.choice_states, trace[1].h).conditions) = 2
  /\ called_events # <<>>

\* C8: the toggle machine run with n pre-posted toggle events ends in B
\* when n is odd and in A when n is even, with called_events empty.
C8_ToggleParity ==
  (m = "toggle" /\ pc = "done" /\ ~isInfinite)
  => /\ current_ = (IF Len(signals) % 2 = 1 THEN "B" ELSE "A")
     /\ called_events = <<>>

\* C9: the guarded self-loop run with four pre-posted tick events ends
\* with cnt.value = 3 and called_events = <<"impulseC">>.
C9_GuardedSelfLoop ==
  (m \in {"tick", "tickFinal"} /\ pc = "done" /\ signals = <<"tick", "tick", "tick", "tick">>)
  => /\ components["cnt"].value = 3
     /\ called_events = <<"impulseC">>

\* C10: a run that exceeded its time budget returns a result whose
\* timeout flag is true.
C10_TimeoutFlag ==
  (pc = "done" /\ elapsed > TimeoutSec) => timeout = TRUE

\* the top-level initial vertices of a parsed model
TopInitials(M) ==
  {i \in 1..Len(M.initial_states) : M.initial_states[i].parent = NoParent}

\* C11: building succeeds only if the parsed machine has exactly one
\* top-level initial vertex; with none (the empty machine included) or with
\* more than one the build fails, with the no-initial-state error unless the
\* choice targets already failed it.
C11_OneTopInitial ==
  \A k \in 1..Len(built) :
    /\ built[k].error = None => Cardinality(TopInitials(cgml)) = 1
    /\ Cardinality(TopInitials(cgml)) # 1 =>
         built[k].error \in {NoInitialState, TargetNotFound}

\* the ids of the vertices a transition target may name: composite states,
\* initial, final and choice vertices
TargetIds(M) ==
  Ids(M.states) \cup Ids(M.initial_states) \cup Ids(M.finals) \cup Ids(M.choices)

\* C12: if any transition of the parsed machine targets an id that is no
\* composite state, initial, final or choice vertex, the build fails with
\* the unresolved-target error; none is passed over in silence.  Builds
\* that fail for want of an initial vertex are left aside.
C12_UnresolvedTargetFails ==
  \A k \in 1..Len(built) :
    ( /\ \E i \in 1..Len(cgml.transitions) :
           cgml.transitions[i].target \notin TargetIds(cgml)
      /\ built[k].error # NoInitialState )
      => /\ built[k].error = TargetNotFound
         /\ built[k].dropped = <<>>

\* C18: building leaves the parsed model unchanged: every component
\* declaration's parameters are the same before and after a build, and a
\* build's components receive the declaration parameters and that build's
\* own global parameters, never those of an earlier build.
C18_ParsedModelUnchanged ==
  \A k \in 1..Len(built) :
    /\ cgml.components = built[1].declared
    /\ built[k].declared = built[1].declared
    /\ \A i \in 1..Len(built[k].received) :
         built[k].received[i].parameters =
           Update(built[1].declared[i].parameters, built[k].sm_parameters)

\* the keys of a parsed machine's states and of its pseudo-vertex maps
VertexKeys(M) ==
  Ids(M.states) \cup Ids(M.initial_states) \cup Ids(M.choices) \cup Ids(M.finals)
    \cup Ids(M.terminates) \cup Ids(M.shallow_history) \cup Ids(M.unknown_vertexes)

\* C13: in every state machine parse_cgml returns, the source id and the
\* target id of each retained transition is a key of the machine's states
\* or of one of its pseudo-vertex maps.
C13_EndpointsResolve ==
  pc = "parsed" =>
    \A k \in 1..Len(elements.state_machines) :
      \A i \in 1..Len(elements.state_machines[k].transitions) :
        /\ elements.state_machines[k].transitions[i].source
             \in VertexKeys(elements.state_machines[k])
        /\ elements.state_machines[k].transitions[i].target
             \in VertexKeys(elements.state_machines[k])

\* every <node> of the graph, those of nested graphs included
GraphNodes == _parse_graph_nodes(graph, None)

\* the CGML_META notes of the graph whose values hold platform and
\* standardVersion
FullMetas ==
  {i \in 1..Len(GraphNodes) :
     /\ GraphNodes[i].data.dNote = "formal"
     /\ GraphNodes[i].data.dName = "CGML_META"
     /\ {"platform", "standardVersion"} \subseteq DOMAIN _parse_meta(GraphNodes[i].data.dData)}

MetaNotes ==
  {i \in 1..Len(GraphNodes) :
     GraphNodes[i].data.dNote = "formal" /\ GraphNodes[i].data.dName = "CGML_META"}

\* C14: a state machine parse_cgml returns has exactly one CGML_META note,
\* and that note holds platform and standardVersion; with two such notes,
\* with one that lacks either value, or with none, parsing fails.
C14_ExactlyOneMeta ==
  pc = "parsed" =>
    /\ elements.state_machines # <<>> =>
         Cardinality(MetaNotes) = 1 /\ FullMetas = MetaNotes
    /\ (Cardinality(MetaNotes) # 1 \/ FullMetas # MetaNotes) =>
         elements.error \in {DoubleMeta, NoPlatform}

\* a guard operand that resolve() finds neither as a number nor as an
\* attribute of a component, under the components env
UnknownOperand(env, x) == resolve([components |-> env], x).str

\* the first signal a State holds for signal_name: its guard is evaluated
\* whenever the state handles signal_name
FirstGuard(h, signal_name) == Get(SM.states, h).signals[signal_name][1].condition

\* C15: when a state handles an event whose first guard has an operand that
\* names no component, no attribute and is no literal, the handler raises
\* and the run is aborted, whichever comparison operator the guard uses; the
\* guard is never evaluated to a truth value with the run going on.
C15_GuardErrorAborts ==
  \A k \in 1..Len(trace) :
    ( /\ Kind(SM, trace[k].h) = "state"
      /\ trace[k].signal \in DOMAIN Get(SM.states, trace[k].h).signals
      /\ Get(SM.states, trace[k].h).signals[trace[k].signal] # <<>>
      /\ FirstGuard(trace[k].h, trace[k].signal).op \notin {"", "else"}
      /\ \/ UnknownOperand(trace[k].env, FirstGuard(trace[k].h, trace[k].signal).lhs)
         \/ UnknownOperand(trace[k].env, FirstGuard(trace[k].h, trace[k].signal).rhs) )
    => trace[k].raised /\ pc = "aborted"

\* the last handler the latest dispatch invoked was QHsm_top: neither the
\* current state nor any of its ancestors took the event
Ignored(t) == t # <<>> /\ t[Len(t)].h = top /\ t[Len(t)].ret = Q_RET_IGNORED

\* C16: a dispatch of an event that neither the current state nor any
\* ancestor handles executes no action and leaves the current state, the
\* components, the pending part of the queue and called_events as they were.
C16_UnhandledIsNoOp ==
  [][ (dispatched' # dispatched /\ Ignored(trace')) =>
        /\ current_' = current_
        /\ components' = components
        /\ SubSeq(events', current_event_idx' + 1, Len(events')) = Pending(World)
        /\ called_events' = called_events
        /\ actionLog' = actionLog
        /\ \A k \in 1..Len(trace') : trace'[k].acts = <<>> ]_vars

\* an event of the machine's alphabet has just been dispatched and ignored
C16_Witness ==
  /\ dispatched # <<>>
  /\ dispatched[Len(dispatched)] \in Machine(m).alphabet
  /\ Ignored(trace)
  /\ pc = "loop"

\* C17: when an action raises the gardener's crash during a run, the caller
\* of every entry point that runs a gardener machine receives a result whose
\* timeout flag is true and whose events and called_events are those
\* recorded up to the fault.
C17_FaultStillReturnsResult ==
  (pc = "returned" /\ crash) =>
    /\ result.type = "StateMachineResult"
    /\ result.timeout = TRUE
    /\ result.signals = events
    /\ result.called_signals = called_events

\* s with x put in as its j-th element
InsertAt(s, j, x) == SubSeq(s, 1, j - 1) \o <<x>> \o SubSeq(s, j, Len(s))

\* the k-th handler invocation of a dispatch was the entry of a composite
\* state with an initial-vertex child, and no other invocation posted
OnlyCompositeEntry(t, k) ==
  /\ Kind(SM, t[k].h) = "state"
  /\ t[k].signal = Q_ENTRY_SIG
  /\ has_initial_state_child(SM, t[k].h) # None
  /\ \A j \in 1..Len(t) : j # k => t[j].posted = 0

\* the user events and the noconditionTransitions of a queue, in its order;
\* what the entry actions make a device post is left out
Queued(q) ==
  SelectSeq(q, LAMBDA e : e \in Machine(m).alphabet \cup {noconditionTransition})

\* C19: when a composite state with an initial-vertex child handles entry,
\* exactly one noconditionTransition is enqueued, and it is read before any
\* user event that was pending at that moment: it stands in the pending
\* part of the queue with no user event in front of it.
C19_NoconditionBeforePending ==
  [][ \A k \in 1..Len(trace') :
        (dispatched' # dispatched /\ ~raised' /\ OnlyCompositeEntry(trace', k)) =>
          \E j \in 1..(Len(Queued(Pending(World))) + 1) :
            /\ Queued(SubSeq(events', current_event_idx' + 1, Len(events'))) =
                 InsertAt(Queued(Pending(World)), j, noconditionTransition)
            /\ \A i \in 1..(j - 1) :
                 Queued(Pending(World))[i] \notin Machine(m).alphabet ]_vars

\* the queue has been found drained and nothing was added since
FoundDrained(h) ==
  \E i \in 1..Len(h) :
    /\ h[i].op = "get" /\ h[i].ev = None
    /\ \A j \in (i + 1)..Len(h) : h[j].op # "add"

\* C20: no call of the event loop fails, and once get_event has returned
\* None, add_event(e) makes the next get_event return e, while a further
\* get_event returns None and leaves events and both cursors as they were.
C20_DrainedQueue ==
  [][ /\ current_event_idx' \in 0..Len(events')
      /\ (FoundDrained(hist) /\ hist' # hist) =>
           /\ hist'[Len(hist')].op = "add" =>
                /\ current_event_idx' < Len(events')
                /\ events'[current_event_idx' + 1] = hist'[Len(hist')].ev
           /\ hist'[Len(hist')].op = "get" =>
                /\ hist'[Len(hist')].ev = None
                /\ events' = events
                /\ current_event_idx' = current_event_idx
                /\ insert_event_idx' = insert_event_idx ]_vars

\* get_event returned None twice, then add_event(e), then get_event gave e
C20_Witness ==
  /\ Len(hist) >= 4
  /\ hist[Len(hist) - 3].op = "get" /\ hist[Len(hist) - 3].ev = None
  /\ hist[Len(hist) - 2].op = "get" /\ hist[Len(hist) - 2].ev = None
  /\ hist[Len(hist) - 1].op = "add"
  /\ hist[Len(hist)].op = "get" /\ hist[Len(hist)].ev = hist[Len(hist) - 1].ev
  /\ \E i \in 1..(Len(hist) - 4) : hist[i].op = "add"

\* C21: every invocation of a runtime handler (State, InitialState,
\* ChoiceState, FinalState execute_signal) that returns, returns one of the
\* five statuses; a choice vertex that handles noconditionTransition never
\* returns without one.
C21_HandlerReturnsStatus ==
  \A k \in 1..Len(trace) :
    (Kind(SM, trace[k].h) # "top" /\ ~trace[k].raised) => trace[k].ret \in Statuses

\* the lines of an action block, as component and method
Lines(action) == SeqMap(LAMBDA l : [component |-> l.component, method |-> l.method], action)

\* the signals a handler holds for signal_name: those of a State, or the
\* branches of a choice vertex
SignalsOf(h, signal_name) ==
  IF Kind(SM, h) = "choice" THEN Get(SM.choice_states, h).conditions
  ELSE StateSignals(h, signal_name)

\* C29: when a signal fires, every line of its action block invokes the
\* named method on the named component, in line order; a line whose
\* component or method cannot be bound raises an error instead of being
\* passed over.
C29_EveryLineInvoked ==
  \A k \in 1..Len(trace) :
    (Kind(SM, trace[k].h) \in {"state", "choice"} /\ trace[k].fired # 0) =>
      \/ trace[k].raised
      \/ trace[k].acts = Lines(SignalsOf(trace[k].h, trace[k].signal)[trace[k].fired].action)

\* the parent of a vertex in the parsed machine, top for one without parent
ParentOf(h) ==
  SuperOf(CASE Kind(SM, h) = "state" -> Get(SM.states, h).parent
            [] Kind(SM, h) = "initial" -> Get(SM.inital_states, h).parent
            [] Kind(SM, h) = "choice" -> Get(SM.choice_states, h).parent
            [] Kind(SM, h) = "final" -> Get(SM.final_states, h).parent
            [] OTHER -> NoParent)

RECURSIVE Chain(_)
\* a vertex and its ancestors, innermost first, top left out
Chain(h) == IF h = top THEN <<>> ELSE <<h>> \o Chain(ParentOf(h))

InChain(h, c) == \E i \in 1..Len(c) : c[i] = h

\* the number of vertices of the chain c that lie below the first one that
\* is also in the chain d; all of c when the chains share none
Below(c, d) ==
  IF \E i \in 1..Len(c) : InChain(c[i], d)
    THEN (CHOOSE i \in 1..Len(c) : InChain(c[i], d) /\ \A j \in 1..(i - 1) : ~InChain(c[j], d)) - 1
    ELSE Len(c)

Reverse(s) == [i \in 1..Len(s) |-> s[Len(s) + 1 - i]]

Fired(c, signal_name) == [i \in 1..Len(c) |-> <<c[i], signal_name>>]

\* the entry and exit invocations of a dispatch, in the order they were made
EntriesAndExits(t) ==
  SeqMap(LAMBDA r : <<r.h, r.signal>>,
         SelectSeq(t, LAMBDA r : r.signal \in {Q_ENTRY_SIG, Q_EXIT_SIG}))

\* the invocation of a dispatch that returned TRAN: the handler that took
\* the event and the target it asked for
Took(t) == t[CHOOSE k \in 1..Len(t) : t[k].ret = Q_RET_TRAN /\ t[k].signal \notin {Q_ENTRY_SIG, Q_EXIT_SIG}]

Transited(t) ==
  \E k \in 1..Len(t) : t[k].ret = Q_RET_TRAN /\ t[k].signal \notin {Q_ENTRY_SIG, Q_EXIT_SIG}

\* C25: a transition that is no self-transition fires exit on the chain of
\* the current state, innermost first, up to but excluding the least common
\* ancestor of source and target, then entry on the chain of the target from
\* just below that ancestor down to the target; the ancestor itself gets
\* neither, also when it is the target.
C25_ExitUpEnterDown ==
  [][ (dispatched' # dispatched /\ ~raised' /\ Transited(trace')
       /\ Took(trace').h # Took(trace').target) =>
        EntriesAndExits(trace') =
          Fired(SubSeq(Chain(current_), 1,
                       Below(Chain(current_), Chain(Took(trace').target))), Q_EXIT_SIG)
          \o Fired(Reverse(SubSeq(Chain(Took(trace').target), 1,
                                  Below(Chain(Took(trace').target), Chain(current_)))),
                   Q_ENTRY_SIG) ]_vars

\* the chain c from its first vertex up to and including h
UpTo(c, h) == SubSeq(c, 1, CHOOSE i \in 1..Len(c) : c[i] = h)

\* C26: a transition whose target is the state that took the event fires
\* exit on every state from the current state up to and including that
\* state, then entry on that state only, and ends with it current.
C26_SelfTransition ==
  [][ (dispatched' # dispatched /\ ~raised' /\ Transited(trace')
       /\ Took(trace').h = Took(trace').target) =>
        /\ EntriesAndExits(trace') =
             Fired(UpTo(Chain(current_), Took(trace').h), Q_EXIT_SIG)
             \o <<<<Took(trace').h, Q_ENTRY_SIG>>>>
        /\ current_' = Took(trace').h ]_vars

\* a composite has just taken an event back to itself while a child of it
\* was current
C26_Witness ==
  /\ dispatched # <<>>
  /\ ~raised
  /\ Transited(trace)
  /\ Took(trace).h = Took(trace).target
  /\ \E k \in 1..Len(trace) :
       /\ trace[k].signal = Q_EXIT_SIG
       /\ trace[k].h # Took(trace).h
  /\ current_ = Took(trace).h

\* C27: when QMsm_dispatch has returned, effective_ equals current_ and
\* target_ is None; after a dispatch that returned TRAN, current_ is the
\* target the signal that fired asked for.
C27_AfterDispatch ==
  [][ (dispatched' # dispatched /\ ~raised') =>
        /\ effective_' = current_'
        /\ target_' = None
        /\ Transited(trace') => current_' = Took(trace').target ]_vars

\* a dispatch has returned TRAN and moved the machine to another vertex
C27_Witness ==
  /\ dispatched # <<>>
  /\ ~raised
  /\ Transited(trace)
  /\ Took(trace).h # Took(trace).target
  /\ current_ = Took(trace).target
  /\ dispatched[Len(dispatched)] \in Machine(m).alphabet

\* the states among a vertex and its ancestors
Active(h) == {Chain(h)[i] : i \in {j \in 1..Len(Chain(h)) : Kind(SM, Chain(h)[j]) = "state"}}

RECURSIVE Alternates(_, _, _)
\* from the set entered of states entered and not yet exited, the
\* invocations of t from the i-th on enter only states outside the set and
\* exit only states inside it, and leave the set after
Alternates(t, i, entered) ==
  IF i > Len(t) THEN [ok |-> TRUE, entered |-> entered]
  ELSE IF Kind(SM, t[i].h) # "state" \/ t[i].signal \notin {Q_ENTRY_SIG, Q_EXIT_SIG}
    THEN Alternates(t, i + 1, entered)
  ELSE IF t[i].signal = Q_ENTRY_SIG
    THEN IF t[i].h \in entered THEN [ok |-> FALSE, entered |-> entered]
         ELSE Alternates(t, i + 1, entered \cup {t[i].h})
  ELSE IF t[i].h \notin entered THEN [ok |-> FALSE, entered |-> entered]
       ELSE Alternates(t, i + 1, entered \ {t[i].h})

\* C30: for every state entry and exit alternate, starting with entry, and
\* after each completed dispatch the states entered and not yet exited are
\* the current state and its ancestors.  Stated step by step: a dispatch
\* that starts with exactly the current state and its ancestors entered
\* enters no entered state, exits no state that is not entered, and ends
\* with exactly the new current state and its ancestors entered.
C30_EntryExitAlternate ==
  [][ (dispatched' # dispatched /\ ~raised') =>
        /\ Alternates(trace', 1, Active(current_)).ok
        /\ Alternates(trace', 1, Active(current_)).entered = Active(current_') ]_vars


RECURSIVE GraphEdges(_), NodesEdges(_, _)
\* every <edge> of a graph, those of the graphs its nodes hold included
GraphEdges(root) == root.edges \o NodesEdges(root.nodes, 1)

NodesEdges(nodes, i) ==
  IF i > Len(nodes) THEN <<>>
  ELSE (IF nodes[i].graph = <<>> THEN <<>> ELSE GraphEdges(nodes[i].graph[1]))
         \o NodesEdges(nodes, i + 1)

\* C22: every <edge> of the graph, those declared in the nested graphs of
\* composite nodes included, is a transition of the parsed machine, except
\* the edges whose source is the meta node.
C22_EveryEdgeIsTransition ==
  pc = "parsed" =>
    \A k \in 1..Len(elements.state_machines) :
      \A i \in 1..Len(GraphEdges(graph)) :
        GraphEdges(graph)[i].source # elements.state_machines[k].meta.id
          => GraphEdges(graph)[i].id \in Ids(elements.state_machines[k].transitions)

\* the id sets of a parsed machine: states, notes, components, and the
\* vertex maps
IdSets(M) ==
  <<Ids(M.states), Ids(M.notes), Ids(M.components), Ids(M.initial_states),
    Ids(M.choices), Ids(M.finals), Ids(M.terminates), Ids(M.shallow_history),
    Ids(M.unknown_vertexes)>>

\* the id sets of M that hold id
Holders(M, id) == {a \in 1..Len(IdSets(M)) : id \in IdSets(M)[a]}

\* the place of the vertex map of a subtype among the id sets
VertexSet(type) ==
  CASE type = "initial" -> 4
    [] type = "choice" -> 5
    [] type = "final" -> 6
    [] type = "terminate" -> 7
    [] type = "shallowHistory" -> 8
    [] OTHER -> 9

\* where the classification rule puts a node: the id sets that hold its id
Category(M, n) ==
  IF n.data.dNote # None
    THEN IF n.data.dNote = "informal" THEN {2}
         ELSE IF n.data.dName = "CGML_COMPONENT" THEN {3}
         ELSE {}
  ELSE IF n.data.dVertex # None THEN {VertexSet(n.data.dVertex)}
  ELSE {1}

\* C28: in a parsed machine a node with dNote is a note, also when it has
\* dVertex; otherwise a node with dVertex is in the vertex map of its
\* subtype, or in unknown_vertexes when the subtype is unknown; otherwise it
\* is a state; and the id sets of states, notes, components and the vertex
\* maps are pairwise disjoint.
C28_NodeClassification ==
  pc = "parsed" =>
    \A k \in 1..Len(elements.state_machines) :
      /\ \A i \in 1..Len(GraphNodes) :
           Holders(elements.state_machines[k], GraphNodes[i].id)
             = Category(elements.state_machines[k], GraphNodes[i])
      /\ \A a, b \in 1..9 :
           a # b => IdSets(elements.state_machines[k])[a]
                      \cap IdSets(elements.state_machines[k])[b] = {}

\* a machine was parsed from a graph with a node that has dNote and dVertex
\* both, and that node is among its notes
C28_Witness ==
  /\ pc = "parsed"
  /\ elements.state_machines # <<>>
  /\ \E i \in 1..Len(GraphNodes) :
       /\ GraphNodes[i].data.dNote # None /\ GraphNodes[i].data.dVertex # None
       /\ GraphNodes[i].id \in Ids(elements.state_machines[1].notes)


\* C23: commas inside braces are not separators at any nesting depth: the
\* text of an argument list whose brace groups hold brace groups is parsed
\* into the correspondingly nested lists.
C23_NestedBraces == pc = "parsedArgs" => args = arguments


\* the event loop: events, called_events and both cursors
EventLoopFields == <<events, called_events, current_event_idx, insert_event_idx>>

\* C24: while run_state_machine is dispatching an event, the event loop is
\* changed by the driver's thread alone: a step that another thread takes
\* during a dispatch leaves events, called_events and both cursors as they
\* are.
C24_NoExternalMutation ==
  [][(Dispatching /\ pc' = pc) => EventLoopFields' = EventLoopFields]_vars


\* C31: a transition whose source and target have the same parent composite
\* state fires neither exit nor entry on that parent, whatever the kind of
\* the target vertex, a final vertex nested in the composite included.
C31_SiblingsKeepParent ==
  [][ ( /\ dispatched' # dispatched /\ ~raised' /\ Transited(trace')
        /\ ParentOf(Took(trace').h) = ParentOf(Took(trace').target)
        /\ ParentOf(Took(trace').h) # top )
      => \A k \in 1..Len(EntriesAndExits(trace')) :
           EntriesAndExits(trace')[k][1] # ParentOf(Took(trace').h) ]_vars


\* C32: after load_file has loaded a file, with the visualizer created for
\* it or kept because the platform is that of the file loaded before, the
\* next run_simulation executes the state machine of that file.
C32_RunsLoadedFile ==
  [][ ( /\ runs' = runs + 1
        /\ last # <<>>
        /\ last[1].outcome \in {"created", "kept"} )
      => ran' = <<last[1].file.name>> ]_vars

\* C36: the Run and Settings buttons are enabled only if the latest
\* load_file attempt ended with a visualizer for the platform of its file,
\* created by it or at hand from an earlier load; after a load whose platform
\* has no visualizer, or whose visualizer could not be constructed, both are
\* disabled.
C36_ButtonsNeedVisualizer ==
  pc = "host" =>
    /\ (app.run_btn = "normal" \/ app.settings_btn = "normal")
         => (last # <<>> /\ last[1].outcome \in {"created", "kept"})
    /\ (last # <<>> /\ last[1].outcome \in {"novisualizer", "failed"})
         => (app.run_btn = "disabled" /\ app.settings_btn = "disabled")


\* the calls made since the latest clear(), all of them when there was none
SinceClear(h) ==
  IF \E i \in 1..Len(h) : h[i].op = "clear"
    THEN SubSeq(h, 1 + CHOOSE i \in 1..Len(h) :
                         h[i].op = "clear" /\ \A j \in (i + 1)..Len(h) : h[j].op # "clear",
                Len(h))
    ELSE h

\* the events get_event has returned, in order
Returned(h) ==
  SeqMap(LAMBDA c : c.ev, SelectSeq(h, LAMBDA c : c.op = "get" /\ c.ev # None))

\* C33: 0 <= current_event_idx <= len(events) always; add_event asks for an
\* index beyond current_event_idx, leaves the prefix already read as it is
\* and does not displace the next pending event; so the events list starts
\* with the events get_event has returned since the latest clear, in that
\* order.
C33_ReadPrefixStable ==
  [][ /\ current_event_idx' \in 0..Len(events')
      /\ (hist' # hist /\ hist'[Len(hist')].op = "add") =>
           /\ insert_event_idx + 1 > current_event_idx
           /\ SubSeq(events', 1, current_event_idx) = SubSeq(events, 1, current_event_idx)
           /\ current_event_idx < Len(events) =>
                events'[current_event_idx + 1] = events[current_event_idx + 1]
      /\ SubSeq(events', 1, current_event_idx') = Returned(SinceClear(hist')) ]_vars

\* an event was posted while one was read and another was pending, and both
\* of these have been returned since
C33_Witness ==
  \E i \in 2..(Len(hist) - 2) :
    /\ \A j \in 1..Len(hist) : hist[j].op # "clear"
    /\ hist[i - 1].op = "get" /\ hist[i - 1].ev # None
    /\ hist[i].op = "add" /\ Len(hist[i].pending) >= 2
    /\ hist[i + 1].op = "get" /\ hist[i + 2].op = "get" /\ hist[i + 2].ev = hist[i].ev

\* the calls after the latest clear() are add_event calls followed by
\* get_event calls
AddsThenGets(h) ==
  \E k \in 1..Len(h) :
    /\ \A i \in 1..k : h[i].op = "add"
    /\ \A i \in (k + 1)..Len(h) : h[i].op = "get"

Posted(h) == SeqMap(LAMBDA c : c.ev, SelectSeq(h, LAMBDA c : c.op = "add"))

Gets(h) == SeqMap(LAMBDA c : c.ev, SelectSeq(h, LAMBDA c : c.op = "get"))

\* C34: after clear(), whatever the cursors were, add_event calls with no
\* get_event in between store the events in posting order, and the
\* get_event calls that follow return them in that order.
C34_PostingOrderAfterClear ==
  ( /\ \E i \in 1..Len(hist) : hist[i].op = "clear"
    /\ AddsThenGets(SinceClear(hist)) )
  => /\ events = Posted(SinceClear(hist))
     /\ \A j \in 1..Len(Gets(SinceClear(hist))) :
          Gets(SinceClear(hist))[j] =
            IF j <= Len(Posted(SinceClear(hist)))
              THEN Posted(SinceClear(hist))[j] ELSE None

\* a run left both cursors beyond 0; after clear() two different events were
\* posted and then returned
C34_Witness ==
  \E i \in 3..(Len(hist) - 4) :
    /\ hist[i].op = "clear"
    /\ hist[i - 1].op = "get" /\ hist[i - 1].ev # None
    /\ hist[i + 1].op = "add" /\ hist[i + 2].op = "add"
    /\ hist[i + 1].ev # hist[i + 2].ev
    /\ hist[i + 3].op = "get" /\ hist[i + 3].ev = hist[i + 1].ev
    /\ hist[i + 4].op = "get" /\ hist[i + 4].ev = hist[i + 2].ev
    /\ Len(hist) = i + 4


\* C35: the events and called_events lists of the StateMachineResult of a
\* run keep the contents they had when the run returned, also when a later
\* run starts.
C35_ResultsKeepContents ==
  \A i \in 1..Len(earlier) :
    /\ Deref(earlier[i].signals) = earlier[i].returned.signals
    /\ Deref(earlier[i].called_signals) = earlier[i].returned.called_signals


\* the number of times e occurs in s
Count(s, e) == Cardinality({i \in 1..Len(s) : s[i] = e})

\* the step posted e, once, and nothing else
PostedOne(e) ==
  /\ Len(events') = Len(events) + 1
  /\ Count(events', e) = Count(events, e) + 1

\* C37: the k-th read of a Reader with message m sets current_char to the
\* k-th character of m and posts one <name>.char_accepted when k <= len(m);
\* it posts one <name>.line_finished and leaves current_char and index as
\* they are when k > len(m); 0 <= index <= len(m) after every call.
C37_ReadAdvances ==
  [][ hist' # hist =>
        /\ components'[Device].index \in 0..Len(components[Device].message)
        /\ components'[Device].message = components[Device].message
        /\ Len(hist') <= Len(components[Device].message) =>
             /\ components'[Device].current_char =
                  components[Device].message[Len(hist')]
             /\ PostedOne(Device \o ".char_accepted")
        /\ Len(hist') > Len(components[Device].message) =>
             /\ components'[Device].current_char = components[Device].current_char
             /\ components'[Device].index = components[Device].index
             /\ PostedOne(Device \o ".line_finished") ]_vars

\* a message of two characters was read to its end and read was called once
\* more
C37_Witness ==
  /\ pc = "device" /\ components[Device].type = "Reader"
  /\ components[Device].message = <<"a", "b">>
  /\ Len(hist) = 3
  /\ components[Device].current_char = "b" /\ components[Device].index = 2
  /\ Count(events, Device \o ".char_accepted") = 2
  /\ Count(events, Device \o ".line_finished") = 1


\* C39: Matrix.setPixel(row, col, b) succeeds exactly when 0 <= row < 7 and
\* 0 <= col < 5, and then sets that cell of the bear's matrix, and no other,
\* to b; Matrix.changePatternBright passes the bear no coordinate outside
\* the 7 by 5 grid.
C39_MatrixAddressesGrid ==
  [][ hist' # hist =>
        /\ hist'[Len(hist')].op = "setPixel" =>
             /\ ~raised' <=> ( /\ hist'[Len(hist')].row \in 0..6
                               /\ hist'[Len(hist')].col \in 0..4 )
             /\ ~raised' =>
                  components'[Device].bear.matrix =
                    [components[Device].bear.matrix
                       EXCEPT ![hist'[Len(hist')].row][hist'[Len(hist')].col] =
                                hist'[Len(hist')].brightness]
        /\ hist'[Len(hist')].op = "changePatternBright" =>
             \A k \in 1..Len(actionLog') :
               actionLog'[k].row \in 0..6 /\ actionLog'[k].col \in 0..4 ]_vars


\* the exact result of method(x) on the value v is within INT_MIN..INT_MAX,
\* or there is none
ResultFits(method, v, x) ==
  CASE method = "add" -> SumFits(v, x)
    [] method = "sub" -> DiffFits(v, x)
    [] method = "mul" -> ProductFits(v, x)
    [] method = "div" -> ~(v = INT_MIN /\ x = -1)
    [] method \in {"neg", "abs"} -> v # INT_MIN
    [] method = "shiftLeft" -> x < 0 \/ ShiftFits(v, x)
    [] OTHER -> TRUE

\* C40: from value 0 and with operands within the signed 32-bit range, the
\* value of a CalcInt stays within INT_MIN..INT_MAX, and every operation
\* whose exact result is outside this range leaves value as it is and posts
\* exactly one <name>.isOverflow.
C40_ValueStaysInRange ==
  [][ hist' # hist =>
        /\ components'[Device].beyond = 0
        /\ ~ResultFits(hist'[Len(hist')].op, components[Device].value,
                       hist'[Len(hist')].x) =>
             /\ components'[Device].value = components[Device].value
             /\ PostedOne(Device \o ".isOverflow") ]_vars


\* the gardener g stands on a cell of its field that is no wall
OnFreeCell(g) ==
  /\ 0 <= g.x /\ g.x < g.N /\ 0 <= g.y /\ g.y < g.M
  /\ g.field[g.y][g.x] # WALL

\* the cell the call of method would take g to
Ahead(g, method) ==
  IF method = "move_forward"
    THEN [x |-> g.x + Dx(g.orientation), y |-> g.y + Dy(g.orientation)]
    ELSE [x |-> g.x - Dx(g.orientation), y |-> g.y - Dy(g.orientation)]

\* the call would take g out of the field or into a wall
Blocked(g, method) ==
  /\ method \in {"move_forward", "move_backward"}
  /\ \/ Ahead(g, method).x \notin 0..(g.N - 1)
     \/ Ahead(g, method).y \notin 0..(g.M - 1)
     \/ g.field[Ahead(g, method).y][Ahead(g, method).x] = WALL

\* C38: a gardener on a cell of the field that is no wall is on such a cell
\* after every Mover operation; a move that would leave the field or enter
\* a wall raises GardenerCrashException and leaves x, y, orientation and the
\* field as they are.
C38_GardenerStaysOnField ==
  [][ OnFreeCell(components[Device].gardener) =>
        /\ OnFreeCell(components'[Device].gardener)
        /\ Blocked(components[Device].gardener, hist'[1].op) =>
             /\ raised' /\ crash'
             /\ components'[Device].gardener = components[Device].gardener
        /\ ~Blocked(components[Device].gardener, hist'[1].op) => ~raised' ]_vars

\* the gardener has left its first cell for the one below, has turned, and
\* the move into the wall beside it raised the exception
C38_Witness ==
  /\ pc = "device" /\ components[Device].type = "Mover"
  /\ hist # <<>> /\ hist[1].op = "move_forward"
  /\ components[Device].gardener.x = 0
  /\ components[Device].gardener.field[0][0] # WALL
  /\ components[Device].gardener.y = 1
  /\ components[Device].gardener.orientation = EAST
  /\ components[Device].gardener.N = 2
  /\ components[Device].gardener.field[1][1] = WALL
  /\ raised /\ crash

=============================================================================
